---- MODULE Spec2Model ----
(***************************************************************************)
(* Work-order tracking API (src/api.py): the Flask routes over the two     *)
(* worksheets "Projects" and "WorkOrders", each route a sequence of        *)
(* store reads (find_row) and store writes (update_cells) that other       *)
(* requests may interleave with.                                           *)
(*                                                                         *)
(* Time: the clock counts ticks, TicksPerSecond ticks to the second, so    *)
(* that half seconds exist and round() has ties to round.  A timestamp     *)
(* cell is <<>> when the cell is the empty string and <<t>> when it holds  *)
(* the ISO text of tick t (isoformat/fromisoformat keep microseconds, so   *)
(* the text denotes the tick exactly).  update_cells writes str(value) and *)
(* get_all_records turns numeric text back into numbers, so an integer     *)
(* cell reads back as the integer written.                                 *)
(*                                                                         *)
(* The bot (src/bot_ui.py, src/bot_projects.py) is the API's client: the   *)
(* control view attached to a work order's message, the modal that creates *)
(* work orders, the timer loop.  `bot` is its state, `threads` the threads *)
(* that exist on the chat platform.  `worked` is a ledger the program does *)
(* not keep: the ticks of the clock during which the stored Status of the  *)
(* first work order was InProgress.                                        *)
(***************************************************************************)
EXTENDS Integers, Sequences, FiniteSets, TLC

VARIABLES workorders_sheet, projects_sheet, now, req, response, bot, threads, worked

vars == <<workorders_sheet, projects_sheet, now, req, response, bot, threads, worked>>

(* ------------------------------ bounds -------------------------------- *)

\* The clock runs from 0 to MaxNow ticks; to MaxTime ticks where only the timer
\* routes run, one request at a time.
MaxNow == 2
MaxTime == 8

\* Clock resolution: ticks per second.
TicksPerSecond == 2

\* Request-handling threads of the API server.
Threads == {"t1", "t2"}

\* Actor ids (Discord user ids).
Actors == {"A", "B"}

\* Identifiers a client may put in the URL: one that exists, one that does not.
WorkOrderIDs == {"wo-1000-100", "wo-1000-999"}

(* --------------------------- the worksheets --------------------------- *)

\* What find_row returns for "no row": (None, None).
None == [k \in {} |-> ""]

\* The row create_project appends (src/api.py:137-147).
ProjectRow(project_id, accountable) ==
    [ProjectID |-> project_id, ChannelID |-> "c1", Status |-> "Active",
     Title |-> "p1", Deliverables |-> "pd1", KPI |-> "", DueDate |-> "2026-01-01",
     AccountableID |-> accountable, DriveFolderURL |-> ""]

\* The row create_work_order appends (src/api.py:237-249).
WorkOrderRow(wo_id, project_id, pushed_to) ==
    [WorkOrderID |-> wo_id, ProjectID |-> project_id, ThreadID |-> "th1",
     Status |-> "Open", Title |-> "t1", Deliverables |-> "d1",
     PushedToUserID |-> pushed_to, InProgressUserID |-> "",
     QA_SubmittedByID |-> "", CurrentStartTime |-> <<>>, TotalTimeSeconds |-> 0]

\* find_row: the first data row whose cell `key` equals `value`, with its sheet
\* row number (data row i, 0-based, is sheet row i + 2); (None, None) otherwise.
\* Here data rows are indexed from 1, so the sheet row number is index + 1.
\* The read of the sheet is taken to succeed.
find_row(worksheet, key, value) ==
    LET hits == {i \in 1..Len(worksheet) : worksheet[i][key] = value}
    IN  IF hits = {}
        THEN [row_data |-> None, row_num |-> 0]
        ELSE LET i == CHOOSE j \in hits : \A k \in hits : j <= k
             IN  [row_data |-> worksheet[i], row_num |-> i + 1]

\* update_cells, when the store call succeeds: the cells of sheet row row_num
\* under the headers named in headers_to_update get the new values; keys that
\* are no header of the sheet are skipped.
update_cells(worksheet, row_num, headers_to_update) ==
    [worksheet EXCEPT ![row_num - 1] =
        [k \in DOMAIN @ |-> IF k \in DOMAIN headers_to_update
                            THEN headers_to_update[k] ELSE @[k]]]

(* --------------------------- time accounting -------------------------- *)

\* Python's round(n / d) for d > 0: nearest integer, ties to the even one.
round(n, d) ==
    LET q == n \div d
        r == n % d
    IN  IF 2 * r < d THEN q
        ELSE IF 2 * r > d THEN q + 1
        ELSE IF q % 2 = 0 THEN q ELSE q + 1

\* new_total_time without the total the row already holds.
new_total_time_elapsed_only(row_data, t) ==
    round(t - row_data.CurrentStartTime[1], TicksPerSecond)

\* _log_time's new_total_time = round(time_spent + total_spent), time_spent
\* being (now - start_time) in seconds.
new_total_time(row_data, t) ==
    round((t - row_data.CurrentStartTime[1])
            + TicksPerSecond * row_data.TotalTimeSeconds, TicksPerSecond)

(* ------------------------------ requests ------------------------------ *)

\* A thread of the server: the route it runs (op), the identifier in the URL,
\* the requester (the UserID of the JSON body where the route reads one; the
\* other routes never learn who asks), the JSON body of an update (data),
\* where the handler stands (pc, "find" when the request has arrived), the
\* sheet row number find_row returned (row_num), the cells of the row it
\* returned that the handler reads again later (row_data: _log_time reads
\* CurrentStartTime and TotalTimeSeconds, no other route reads any), and the
\* cells the handler is about to write (headers).
Idle ==
    [op |-> "", wo_id |-> "", user |-> "", data |-> None, pc |-> "idle",
     row_data |-> None, row_num |-> 0, headers |-> None]

\* A request arrives at a thread that runs none: Flask calls the route's
\* function with the identifier of the URL, request.json holding the body.
request(t, op, wo_id, user, data) ==
    /\ req[t].pc = "idle"
    /\ req' = [req EXCEPT ![t] = [Idle EXCEPT !.op = op, !.wo_id = wo_id, !.user = user,
                                              !.data = data, !.pc = "find"]]
    /\ UNCHANGED <<workorders_sheet, projects_sheet, now, response>>
    /\ UNCHANGED <<bot, threads, worked>>

\* Thread t is at the start of the function of route op.
At(t, op) == req[t].pc = "find" /\ req[t].op = op

\* HTTP status codes of the answers.
OK == 200
Forbidden == 403
NotFound == 404
UpstreamFailure == 500

\* The handler returns jsonify(...), code: the answer goes to the client and
\* the thread is free again.  response is the last answer sent.
Return(t, r, code) ==
    /\ req' = [req EXCEPT ![t] = Idle]
    /\ response' = [op |-> r.op, code |-> code]
    /\ UNCHANGED <<bot, threads, worked>>

\* The cells of a row a handler keeps to read later.
Kept(row_data, keys) == [k \in keys |-> row_data[k]]

\* The handler goes on to its next step.
Goto(t, r) ==
    /\ req' = [req EXCEPT ![t] = r]
    /\ UNCHANGED <<response, bot, threads, worked>>

\* The store call of update_cells: it succeeds and the cells change, or it
\* raises, update_cells returns False and nothing changes.
StoreWrite(t, ok) ==
    workorders_sheet' =
        IF ok THEN update_cells(workorders_sheet, req[t].row_num, req[t].headers)
        ELSE workorders_sheet

\* What a store call may do: succeed (TRUE) or raise (FALSE).
StoreOutcomes == {TRUE, FALSE}

\* JSON bodies a client sends to PUT /workorder/<id>: the edit modal's
\* (Title, Deliverables, and PushedToUserID when the assignee is updated), and
\* one naming cells outside the allow-list.
Payloads ==
    {[Title |-> "t2", Deliverables |-> "d2"]}
    \cup {[Title |-> "t1", Deliverables |-> "d1", PushedToUserID |-> u] : u \in Actors \cup {""}}
    \cup {[Status |-> "Cancelled", TotalTimeSeconds |-> 0]}

(* ------------------------------- Start -------------------------------- *)

\* start_work_order with the test "pushed_to != user" alone: a row pushed to
\* nobody refuses everybody.
start_work_order_refuses_unpushed(t) ==
    /\ At(t, "start")
    /\ LET f == find_row(workorders_sheet, "WorkOrderID", req[t].wo_id)
           r == [req[t] EXCEPT !.row_num = f.row_num]
       IN  IF f.row_data = None THEN Return(t, r, NotFound)
           ELSE IF f.row_data.PushedToUserID # req[t].user THEN Return(t, r, Forbidden)
           ELSE Goto(t, [r EXCEPT !.pc = "start_now"])
    /\ UNCHANGED <<workorders_sheet, projects_sheet, now>>

\* PUT /workorder/<id>/start, lines 312-321: find the row, 404 when there is
\* none, 403 when it is pushed to another user.
start_work_order(t) ==
    /\ At(t, "start")
    /\ LET f == find_row(workorders_sheet, "WorkOrderID", req[t].wo_id)
           r == [req[t] EXCEPT !.row_num = f.row_num]
           pushed_to == f.row_data.PushedToUserID
       IN  IF f.row_data = None THEN Return(t, r, NotFound)
           ELSE IF pushed_to # "" /\ pushed_to # req[t].user THEN Return(t, r, Forbidden)
           ELSE Goto(t, [r EXCEPT !.pc = "start_now"])
    /\ UNCHANGED <<workorders_sheet, projects_sheet, now>>

\* lines 323-327: the cells to write, CurrentStartTime read from the clock.
start_work_order_now(t) ==
    /\ req[t].pc = "start_now"
    /\ Goto(t, [req[t] EXCEPT !.pc = "start_update",
                              !.headers = [Status |-> "InProgress",
                                           InProgressUserID |-> req[t].user,
                                           CurrentStartTime |-> <<now>>]])
    /\ UNCHANGED <<workorders_sheet, projects_sheet, now>>

\* start_work_order's write when it leaves a holder already in the row alone.
start_work_order_update_keeps_holder(t, ok) ==
    /\ req[t].pc = "start_update"
    /\ workorders_sheet' =
          IF ok /\ workorders_sheet[req[t].row_num - 1].InProgressUserID = ""
          THEN update_cells(workorders_sheet, req[t].row_num, req[t].headers)
          ELSE workorders_sheet
    /\ Return(t, req[t], OK)
    /\ UNCHANGED <<projects_sheet, now>>

\* lines 328-329: update_cells, its result not looked at, then 200.
start_work_order_update(t, ok) ==
    /\ req[t].pc = "start_update"
    /\ StoreWrite(t, ok)
    /\ Return(t, req[t], OK)
    /\ UNCHANGED <<projects_sheet, now>>

(* --------------------------- Pause and Finish ------------------------- *)

\* pause_work_order without _log_time's early return: an empty CurrentStartTime
\* is taken for tick 0 and the flush goes on.
pause_work_order_always_flushes(t) ==
    /\ At(t, "pause")
    /\ LET f == find_row(workorders_sheet, "WorkOrderID", req[t].wo_id)
           r == [req[t] EXCEPT !.row_num = f.row_num]
       IN  IF f.row_data = None THEN Return(t, r, NotFound)
           ELSE Goto(t, [r EXCEPT !.pc = "log_time_now",
                                  !.row_data =
                                      [CurrentStartTime |->
                                           IF f.row_data.CurrentStartTime = <<>>
                                           THEN <<0>> ELSE f.row_data.CurrentStartTime,
                                       TotalTimeSeconds |-> f.row_data.TotalTimeSeconds]])
    /\ UNCHANGED <<workorders_sheet, projects_sheet, now>>

\* PUT /workorder/<id>/pause, lines 353-357 and _log_time lines 333-335: find
\* the row, 404 when there is none; _log_time returns at once when
\* CurrentStartTime is empty.
pause_work_order(t) ==
    /\ At(t, "pause")
    /\ LET f == find_row(workorders_sheet, "WorkOrderID", req[t].wo_id)
           r == [req[t] EXCEPT !.row_num = f.row_num]
       IN  IF f.row_data = None THEN Return(t, r, NotFound)
           ELSE IF f.row_data.CurrentStartTime = <<>>
                THEN Goto(t, [r EXCEPT !.pc = "pause_update",
                                       !.headers = [Status |-> "Open"]])
                ELSE Goto(t, [r EXCEPT !.pc = "log_time_now",
                                       !.row_data = Kept(f.row_data, {"CurrentStartTime",
                                                                      "TotalTimeSeconds"})])
    /\ UNCHANGED <<workorders_sheet, projects_sheet, now>>

\* finish_work_order without the call of _log_time.
finish_work_order_without_flush(t) ==
    /\ At(t, "finish")
    /\ LET f == find_row(workorders_sheet, "WorkOrderID", req[t].wo_id)
           r == [req[t] EXCEPT !.row_num = f.row_num]
       IN  IF f.row_data = None THEN Return(t, r, NotFound)
           ELSE Goto(t, [r EXCEPT !.pc = "finish_update",
                                  !.headers = [Status |-> "InQA",
                                               QA_SubmittedByID |-> req[t].user]])
    /\ UNCHANGED <<workorders_sheet, projects_sheet, now>>

\* PUT /workorder/<id>/finish, lines 363-370 and _log_time lines 333-335.
finish_work_order(t) ==
    /\ At(t, "finish")
    /\ LET f == find_row(workorders_sheet, "WorkOrderID", req[t].wo_id)
           r == [req[t] EXCEPT !.row_num = f.row_num]
       IN  IF f.row_data = None THEN Return(t, r, NotFound)
           ELSE IF f.row_data.CurrentStartTime = <<>>
                THEN Goto(t, [r EXCEPT !.pc = "finish_update",
                                       !.headers = [Status |-> "InQA",
                                                    QA_SubmittedByID |-> req[t].user]])
                ELSE Goto(t, [r EXCEPT !.pc = "log_time_now",
                                       !.row_data = Kept(f.row_data, {"CurrentStartTime",
                                                                      "TotalTimeSeconds"})])
    /\ UNCHANGED <<workorders_sheet, projects_sheet, now>>

\* _log_time lines 337-347: the elapsed time from the clock, added to the
\* total of the row as read, and the cells to write.
log_time_now(t) ==
    /\ req[t].pc = "log_time_now"
    /\ Goto(t, [req[t] EXCEPT !.pc = "log_time_update",
                              !.row_data = None,
                              !.headers = [TotalTimeSeconds |-> new_total_time(req[t].row_data, now),
                                           CurrentStartTime |-> <<>>,
                                           InProgressUserID |-> ""]])
    /\ UNCHANGED <<workorders_sheet, projects_sheet, now>>

\* _log_time lines 348-349: update_cells, its result not looked at; back in
\* the route, the cells of its own write (lines 358, 371-374).
log_time_update(t, ok) ==
    /\ req[t].pc = "log_time_update"
    /\ StoreWrite(t, ok)
    /\ Goto(t, [req[t] EXCEPT !.pc = IF req[t].op = "pause" THEN "pause_update"
                                                             ELSE "finish_update",
                              !.headers = IF req[t].op = "pause"
                                          THEN [Status |-> "Open"]
                                          ELSE [Status |-> "InQA",
                                                QA_SubmittedByID |-> req[t].user]])
    /\ UNCHANGED <<projects_sheet, now>>

\* pause_work_order lines 358-359: Status becomes Open, then 200.
pause_work_order_update(t, ok) ==
    /\ req[t].pc = "pause_update"
    /\ StoreWrite(t, ok)
    /\ Return(t, req[t], OK)
    /\ UNCHANGED <<projects_sheet, now>>

\* finish_work_order lines 371-376: Status becomes InQA with the submitter, then 200.
finish_work_order_update(t, ok) ==
    /\ req[t].pc = "finish_update"
    /\ StoreWrite(t, ok)
    /\ Return(t, req[t], OK)
    /\ UNCHANGED <<projects_sheet, now>>

(* -------------------------- Approve and Rework ------------------------ *)

\* approve_work_order with TotalTimeSeconds among the cells it resets.
approve_work_order_resets_total(t) ==
    /\ At(t, "approve")
    /\ LET f == find_row(workorders_sheet, "WorkOrderID", req[t].wo_id)
           r == [req[t] EXCEPT !.row_num = f.row_num]
       IN  IF f.row_data = None THEN Return(t, r, NotFound)
           ELSE Goto(t, [r EXCEPT !.pc = "approve_update",
                                  !.headers = [Status |-> "Approved",
                                               InProgressUserID |-> "",
                                               CurrentStartTime |-> <<>>,
                                               QA_SubmittedByID |-> "",
                                               TotalTimeSeconds |-> 0]])
    /\ UNCHANGED <<workorders_sheet, projects_sheet, now>>

\* PUT /workorder/<id>/approve, lines 380-389: find the row, 404 when there is
\* none; the cells to write do not depend on the row or on the requester.
approve_work_order(t) ==
    /\ At(t, "approve")
    /\ LET f == find_row(workorders_sheet, "WorkOrderID", req[t].wo_id)
           r == [req[t] EXCEPT !.row_num = f.row_num]
       IN  IF f.row_data = None THEN Return(t, r, NotFound)
           ELSE Goto(t, [r EXCEPT !.pc = "approve_update",
                                  !.headers = [Status |-> "Approved",
                                               InProgressUserID |-> "",
                                               CurrentStartTime |-> <<>>,
                                               QA_SubmittedByID |-> ""]])
    /\ UNCHANGED <<workorders_sheet, projects_sheet, now>>

\* lines 390-391.
approve_work_order_update(t, ok) ==
    /\ req[t].pc = "approve_update"
    /\ StoreWrite(t, ok)
    /\ Return(t, req[t], OK)
    /\ UNCHANGED <<projects_sheet, now>>

\* rework_work_order without the "InProgressUserID": "" of line 401: the
\* holder is left in the row.
rework_work_order_keeps_holder(t) ==
    /\ At(t, "rework")
    /\ LET f == find_row(workorders_sheet, "WorkOrderID", req[t].wo_id)
           r == [req[t] EXCEPT !.row_num = f.row_num]
       IN  IF f.row_data = None THEN Return(t, r, NotFound)
           ELSE Goto(t, [r EXCEPT !.pc = "rework_update",
                                  !.headers = [Status |-> "Open",
                                               CurrentStartTime |-> <<>>,
                                               QA_SubmittedByID |-> ""]])
    /\ UNCHANGED <<workorders_sheet, projects_sheet, now>>

\* rework_work_order storing the status its name suggests instead of the
\* "Open" of line 400.
rework_work_order_stores_rework(t) ==
    /\ At(t, "rework")
    /\ LET f == find_row(workorders_sheet, "WorkOrderID", req[t].wo_id)
           r == [req[t] EXCEPT !.row_num = f.row_num]
       IN  IF f.row_data = None THEN Return(t, r, NotFound)
           ELSE Goto(t, [r EXCEPT !.pc = "rework_update",
                                  !.headers = [Status |-> "Rework",
                                               InProgressUserID |-> "",
                                               CurrentStartTime |-> <<>>,
                                               QA_SubmittedByID |-> ""]])
    /\ UNCHANGED <<workorders_sheet, projects_sheet, now>>

\* PUT /workorder/<id>/rework, lines 395-404.
rework_work_order(t) ==
    /\ At(t, "rework")
    /\ LET f == find_row(workorders_sheet, "WorkOrderID", req[t].wo_id)
           r == [req[t] EXCEPT !.row_num = f.row_num]
       IN  IF f.row_data = None THEN Return(t, r, NotFound)
           ELSE Goto(t, [r EXCEPT !.pc = "rework_update",
                                  !.headers = [Status |-> "Open",
                                               InProgressUserID |-> "",
                                               CurrentStartTime |-> <<>>,
                                               QA_SubmittedByID |-> ""]])
    /\ UNCHANGED <<workorders_sheet, projects_sheet, now>>

\* lines 405-406.
rework_work_order_update(t, ok) ==
    /\ req[t].pc = "rework_update"
    /\ StoreWrite(t, ok)
    /\ Return(t, req[t], OK)
    /\ UNCHANGED <<projects_sheet, now>>

(* ---------------------------- Edit and Cancel ------------------------- *)

\* Every key of a JSON body, whatever allowed_headers holds.
allowed_any(data, allowed_headers) == data

\* The keys of a JSON body that are in allowed_headers.
allowed(data, allowed_headers) ==
    [k \in DOMAIN data \cap allowed_headers |-> data[k]]

\* update_work_order writing back the row it read with the allow-listed keys
\* of the body replaced, instead of those cells alone.
update_work_order_writes_row_back(t) ==
    /\ At(t, "update")
    /\ LET f == find_row(workorders_sheet, "WorkOrderID", req[t].wo_id)
           r == [req[t] EXCEPT !.row_num = f.row_num]
           new == allowed(req[t].data, {"Title", "Deliverables", "PushedToUserID"})
       IN  IF f.row_data = None THEN Return(t, r, NotFound)
           ELSE Goto(t, [r EXCEPT !.pc = "update_update",
                                  !.data = None,
                                  !.headers = [k \in DOMAIN f.row_data |->
                                                  IF k \in DOMAIN new THEN new[k]
                                                  ELSE f.row_data[k]]])
    /\ UNCHANGED <<workorders_sheet, projects_sheet, now>>

\* update_work_order writing every key of the body, with no allow-list.
update_work_order_any_cell(t) ==
    /\ At(t, "update")
    /\ LET f == find_row(workorders_sheet, "WorkOrderID", req[t].wo_id)
           r == [req[t] EXCEPT !.row_num = f.row_num]
       IN  IF f.row_data = None THEN Return(t, r, NotFound)
           ELSE Goto(t, [r EXCEPT !.pc = "update_update",
                                  !.data = None,
                                  !.headers = req[t].data])
    /\ UNCHANGED <<workorders_sheet, projects_sheet, now>>

\* PUT /workorder/<id>, lines 290-296: find the row, 404 when there is none;
\* the cells to write are the allow-listed keys of the body.
update_work_order(t) ==
    /\ At(t, "update")
    /\ LET f == find_row(workorders_sheet, "WorkOrderID", req[t].wo_id)
           r == [req[t] EXCEPT !.row_num = f.row_num]
       IN  IF f.row_data = None THEN Return(t, r, NotFound)
           ELSE Goto(t, [r EXCEPT !.pc = "update_update",
                                  !.data = None,
                                  !.headers = allowed(req[t].data, {"Title", "Deliverables",
                                                             "PushedToUserID"})])
    /\ UNCHANGED <<workorders_sheet, projects_sheet, now>>

\* lines 298-299: update_cells; 500 when it returns False.
update_work_order_update(t, ok) ==
    /\ req[t].pc = "update_update"
    /\ StoreWrite(t, ok)
    /\ IF ok THEN Goto(t, [req[t] EXCEPT !.pc = "update_find", !.headers = None])
             ELSE Return(t, req[t], UpstreamFailure)
    /\ UNCHANGED <<projects_sheet, now>>

\* lines 301-302: the row is read again and returned with 200.
update_work_order_find(t) ==
    /\ req[t].pc = "update_find"
    /\ Return(t, req[t], OK)
    /\ UNCHANGED <<workorders_sheet, projects_sheet, now>>

\* PUT /workorder/<id>/cancel, which the control view sends: the API has no
\* such route, so the server answers 404 without running any handler.
cancel_work_order(t) ==
    /\ At(t, "cancel")
    /\ Return(t, req[t], NotFound)
    /\ UNCHANGED <<workorders_sheet, projects_sheet, now>>

(* ------------------------------ projects ------------------------------ *)

\* In the project routes the identifier of the URL (the thread's wo_id) is a
\* ProjectID, looked up in the Projects sheet.

\* The store call of update_cells on the Projects sheet.
ProjectStoreWrite(t, ok) ==
    projects_sheet' =
        IF ok THEN update_cells(projects_sheet, req[t].row_num, req[t].headers)
        ELSE projects_sheet

\* What a call of the folder service (Drive) may do: succeed (TRUE) or fail
\* (FALSE: create_gdrive_folder returns (None, None), move_gdrive_folder
\* returns False or raises).
FolderOutcomes == {TRUE, FALSE}

\* date.today().isoformat(): the clock stays within one day.
today == "2026-01-02"

\* GET /project/<id>, lines 159-162: 404 when there is no row, else the row.
get_project(t) ==
    /\ At(t, "get_project")
    /\ IF find_row(projects_sheet, "ProjectID", req[t].wo_id).row_data = None
       THEN Return(t, req[t], NotFound)
       ELSE Return(t, req[t], OK)
    /\ UNCHANGED <<workorders_sheet, projects_sheet, now>>

\* update_project writing every key of the body, with no allow-list.
update_project_any_cell(t) ==
    /\ At(t, "update_project")
    /\ LET f == find_row(projects_sheet, "ProjectID", req[t].wo_id)
           r == [req[t] EXCEPT !.row_num = f.row_num]
       IN  IF f.row_data = None THEN Return(t, r, NotFound)
           ELSE Goto(t, [r EXCEPT !.pc = "update_project_update",
                                  !.data = None,
                                  !.headers = req[t].data])
    /\ UNCHANGED <<workorders_sheet, projects_sheet, now>>

\* PUT /project/<id>, lines 166-174: find the row, 404 when there is none; the
\* cells to write are the allow-listed keys of the body.  The Status of the
\* row is not looked at.
update_project(t) ==
    /\ At(t, "update_project")
    /\ LET f == find_row(projects_sheet, "ProjectID", req[t].wo_id)
           r == [req[t] EXCEPT !.row_num = f.row_num]
       IN  IF f.row_data = None THEN Return(t, r, NotFound)
           ELSE Goto(t, [r EXCEPT !.pc = "update_project_update",
                                  !.data = None,
                                  !.headers = allowed(req[t].data,
                                                      {"Title", "Deliverables", "KPI",
                                                       "DueDate", "AccountableID"})])
    /\ UNCHANGED <<workorders_sheet, projects_sheet, now>>

\* lines 175-176: update_cells; 500 when it returns False.
update_project_update(t, ok) ==
    /\ req[t].pc = "update_project_update"
    /\ ProjectStoreWrite(t, ok)
    /\ IF ok THEN Goto(t, [req[t] EXCEPT !.pc = "update_project_find", !.headers = None])
             ELSE Return(t, req[t], UpstreamFailure)
    /\ UNCHANGED <<workorders_sheet, now>>

\* lines 178-179: the row is read again and returned with 200.
update_project_find(t) ==
    /\ req[t].pc = "update_project_find"
    /\ Return(t, req[t], OK)
    /\ UNCHANGED <<workorders_sheet, projects_sheet, now>>

\* finish_project answering 200 when no row holds the identifier.
finish_project_unknown_ok(t) ==
    /\ At(t, "finish_project")
    /\ LET f == find_row(projects_sheet, "ProjectID", req[t].wo_id)
           r == [req[t] EXCEPT !.row_num = f.row_num]
       IN  IF f.row_data = None THEN Return(t, r, OK)
           ELSE Goto(t, [r EXCEPT !.pc = "finish_project_move",
                                  !.row_data = Kept(f.row_data, {"DriveFolderURL"})])
    /\ UNCHANGED <<workorders_sheet, projects_sheet, now>>

\* PUT /project/<id>/finish, lines 183-185: find the row, 404 when there is
\* none.  The route reads no body: it never learns who asks.
finish_project(t) ==
    /\ At(t, "finish_project")
    /\ LET f == find_row(projects_sheet, "ProjectID", req[t].wo_id)
           r == [req[t] EXCEPT !.row_num = f.row_num]
       IN  IF f.row_data = None THEN Return(t, r, NotFound)
           ELSE Goto(t, [r EXCEPT !.pc = "finish_project_move",
                                  !.row_data = Kept(f.row_data, {"DriveFolderURL"})])
    /\ UNCHANGED <<workorders_sheet, projects_sheet, now>>

\* finish_project_move writing a cell more than line 199 names: the
\* accountable person is blanked with the finish.
finish_project_move_blanks_accountable(t, moved) ==
    /\ req[t].pc = "finish_project_move"
    /\ moved \in (IF req[t].row_data.DriveFolderURL # "" THEN FolderOutcomes ELSE {FALSE})
    /\ Goto(t, [req[t] EXCEPT !.pc = "finish_project_update",
                              !.row_data = None,
                              !.headers = [Status |-> "Finished", DueDate |-> today,
                                           AccountableID |-> ""]])
    /\ UNCHANGED <<workorders_sheet, projects_sheet, now>>

\* lines 187-199: the folder of the project, when the row names one, is moved
\* to the finished folder; the move succeeds or fails (`moved`), a failure is
\* printed and the handler goes on to the cells to write, the date read from
\* the clock.
finish_project_move(t, moved) ==
    /\ req[t].pc = "finish_project_move"
    /\ moved \in (IF req[t].row_data.DriveFolderURL # "" THEN FolderOutcomes ELSE {FALSE})
    /\ Goto(t, [req[t] EXCEPT !.pc = "finish_project_update",
                              !.row_data = None,
                              !.headers = [Status |-> "Finished", DueDate |-> today]])
    /\ UNCHANGED <<workorders_sheet, projects_sheet, now>>

\* lines 201-205: update_cells; 500 when it returns False, else the row is
\* read again and returned with 200.
finish_project_update(t, ok) ==
    /\ req[t].pc = "finish_project_update"
    /\ ProjectStoreWrite(t, ok)
    /\ Return(t, req[t], IF ok THEN OK ELSE UpstreamFailure)
    /\ UNCHANGED <<workorders_sheet, now>>

(* ------------------------------ creation ------------------------------ *)

\* Answer code of the create routes.
Created == 201

\* The numbers random.randint(1000, 9999) draws for a ProjectID and
\* random.randint(100, 999) draws for a WorkOrderID, as text: two of each
\* range.
ProjectNumbers == {"1000", "1001"}
WorkOrderNumbers == {"100", "101"}

\* f"proj-{n}".
project_id_of(n) == "proj-" \o n

\* project_id.split('-')[-1] of an identifier create_project made.
last_part(project_id) == CHOOSE n \in ProjectNumbers : project_id_of(n) = project_id

\* f"wo-{project_id.split('-')[-1]}-{n}".
wo_id_of(project_id, n) == "wo-" \o last_part(project_id) \o "-" \o n

\* The webViewLink of a folder the folder service created.
FolderURL == "https://drive/folders/f1"

\* create_project giving up with 500 when the folder is not created.
create_project_needs_folder(t, created, n) ==
    /\ At(t, "create_project")
    /\ IF created
       THEN Goto(t, [req[t] EXCEPT
                       !.pc = "create_project_append",
                       !.data = None,
                       !.headers = [ProjectRow(project_id_of(n), req[t].data.AccountableID)
                                       EXCEPT !.DriveFolderURL = FolderURL]])
       ELSE Return(t, req[t], UpstreamFailure)
    /\ UNCHANGED <<workorders_sheet, projects_sheet, now>>

\* POST /project, lines 126-147: the folder is created or not (`created`), the
\* URL left blank when it is not; the identifier is drawn at random (n) and
\* not compared with the identifiers in the sheet.
create_project(t, created, n) ==
    /\ At(t, "create_project")
    /\ Goto(t, [req[t] EXCEPT
                  !.pc = "create_project_append",
                  !.data = None,
                  !.headers = [ProjectRow(project_id_of(n), req[t].data.AccountableID)
                                  EXCEPT !.DriveFolderURL =
                                             IF created THEN FolderURL ELSE ""]])
    /\ UNCHANGED <<workorders_sheet, projects_sheet, now>>

\* lines 148-155: append_row, then 201; 500 when the store call raises.
create_project_append(t, ok) ==
    /\ req[t].pc = "create_project_append"
    /\ projects_sheet' = IF ok THEN Append(projects_sheet, req[t].headers)
                         ELSE projects_sheet
    /\ Return(t, req[t], IF ok THEN Created ELSE UpstreamFailure)
    /\ UNCHANGED <<workorders_sheet, now>>

\* create_work_order without the 404 of lines 222-224: the row is built
\* whether or not the parent project has a row.
create_work_order_without_parent(t, created, n) ==
    /\ At(t, "create_work_order")
    /\ created = FALSE
    /\ Goto(t, [req[t] EXCEPT
                  !.pc = "create_work_order_append",
                  !.data = None,
                  !.row_data = [SubfolderURL |-> ""],
                  !.headers = [WorkOrderRow(wo_id_of(req[t].data.ProjectID, n),
                                            req[t].data.ProjectID,
                                            req[t].data.PushedToUserID)
                                  EXCEPT !.ThreadID = req[t].data.ThreadID]])
    /\ UNCHANGED <<workorders_sheet, projects_sheet, now>>

\* POST /workorder, lines 221-249: 404 when the parent project has no row;
\* a subfolder is created, or not, when the project names a folder (the URL,
\* blank when it is not, goes into the answer, not into the sheet); the identifier is drawn at
\* random (n) and not compared with the identifiers in the sheet.
create_work_order(t, created, n) ==
    /\ At(t, "create_work_order")
    /\ LET f == find_row(projects_sheet, "ProjectID", req[t].data.ProjectID)
       IN  IF f.row_data = None THEN Return(t, req[t], NotFound)
           ELSE /\ created \in (IF f.row_data.DriveFolderURL # ""
                                THEN FolderOutcomes ELSE {FALSE})
                /\ Goto(t, [req[t] EXCEPT
                              !.pc = "create_work_order_append",
                              !.data = None,
                              !.row_data = [SubfolderURL |->
                                               IF created THEN FolderURL ELSE ""],
                              !.headers = [WorkOrderRow(wo_id_of(req[t].data.ProjectID, n),
                                                        req[t].data.ProjectID,
                                                        req[t].data.PushedToUserID)
                                              EXCEPT !.ThreadID = req[t].data.ThreadID]])
    /\ UNCHANGED <<workorders_sheet, projects_sheet, now>>

\* lines 250-260: append_row, then 201, the answer carrying the subfolder URL;
\* 500 when the store call raises.
create_work_order_append(t, ok) ==
    /\ req[t].pc = "create_work_order_append"
    /\ workorders_sheet' = IF ok THEN Append(workorders_sheet, req[t].headers)
                           ELSE workorders_sheet
    /\ req' = [req EXCEPT ![t] = Idle]
    /\ response' = IF ok THEN [op |-> req[t].op, code |-> Created,
                               workorder |-> req[t].row_data]
                   ELSE [op |-> req[t].op, code |-> UpstreamFailure]
    /\ UNCHANGED <<projects_sheet, now, bot, threads, worked>>

\* lines 250-260 when append_row succeeds and the read of the sheet after it
\* fails: find_row catches the error and returns (None, None), line 254
\* subscripts None and raises, and the answer is 500 with the row in the sheet.
create_work_order_find_fails(t) ==
    /\ req[t].pc = "create_work_order_append"
    /\ workorders_sheet' = Append(workorders_sheet, req[t].headers)
    /\ req' = [req EXCEPT ![t] = Idle]
    /\ response' = [op |-> req[t].op, code |-> UpstreamFailure]
    /\ UNCHANGED <<projects_sheet, now, bot, threads, worked>>

(* ------------------------------ rendering ----------------------------- *)

\* The handler returns jsonify({..., "workorder": row_data}), code: the
\* answer carries the cells of the row the timer of the embed is built from.
ReturnRow(t, r, code, row_data) ==
    /\ req' = [req EXCEPT ![t] = Idle]
    /\ response' = [op |-> r.op, code |-> code,
                    workorder |-> Kept(row_data, {"Status", "CurrentStartTime",
                                                  "TotalTimeSeconds"})]
    /\ UNCHANGED <<bot, threads, worked>>

\* GET /workorder/<id>, lines 264-286: 404 when there is no row; else the row,
\* with the subfolder URL looked up in the folder service.
get_work_order(t) ==
    /\ At(t, "get")
    /\ LET f == find_row(workorders_sheet, "WorkOrderID", req[t].wo_id)
       IN  IF f.row_data = None THEN Return(t, req[t], NotFound)
           ELSE ReturnRow(t, req[t], OK, f.row_data)
    /\ UNCHANGED <<workorders_sheet, projects_sheet, now>>

\* GET /workorders/inprogress, lines 304-308, the first request of the timer
\* loop: the rows whose Status is InProgress.
get_in_progress_work_orders(t) ==
    /\ At(t, "inprogress")
    /\ Return(t, req[t], OK)
    /\ UNCHANGED <<workorders_sheet, projects_sheet, now>>

\* Python's int(n / d) for d > 0: the fraction is cut off, towards zero.
int(n, d) == IF n >= 0 THEN n \div d ELSE -((-n) \div d)

\* build_embed showing the stored total alone, whatever the Status.
build_embed_total_only(wo_data, t) == wo_data.TotalTimeSeconds

\* build_embed's total_sec, the seconds the embed shows as "Total Time Logged",
\* built at tick t from the row of an answer.
build_embed(wo_data, t) ==
    LET total_sec == wo_data.TotalTimeSeconds
    IN  IF wo_data.Status = "InProgress" /\ wo_data.CurrentStartTime # <<>>
        THEN total_sec + int(t - wo_data.CurrentStartTime[1], TicksPerSecond)
        ELSE total_sec

(* ------------------------------- the bot ------------------------------ *)

\* str(d.get(key)) of the views: the cell, "None" when the dict lacks the key.
str_get(d, key) == IF key \in DOMAIN d THEN d[key] ELSE "None"

\* toggle_buttons leaving Start among the buttons of a work order in review.
toggle_buttons_start_in_review(status) ==
    IF status \in {"Open", "Rework"} THEN {"start", "edit", "cancel"}
    ELSE IF status = "InProgress" THEN {"pause", "finish"}
    ELSE IF status = "InQA" THEN {"start", "approve", "rework"}
    ELSE {}

\* WorkOrderControlView.toggle_buttons, bot_ui.py lines 549-577: every button
\* is disabled and taken off the view, then the buttons of the status are
\* enabled and put back; the result is the set of buttons the view offers.
toggle_buttons(status) ==
    IF status \in {"Open", "Rework"} THEN {"start", "edit", "cancel"}
    ELSE IF status = "InProgress" THEN {"pause", "finish"}
    ELSE IF status = "InQA" THEN {"approve", "rework"}
    ELSE {}

\* The cells of a work order and of a project the views read.
ViewCells == {"WorkOrderID", "Status", "PushedToUserID", "InProgressUserID"}
ProjectCells == {"ProjectID", "AccountableID"}

\* WorkOrderControlView.__init__, lines 529-547: the view keeps the two dicts
\* it is given and shows the buttons of the work order's status.
WorkOrderControlView(project_data, wo_data) ==
    [project_data |-> project_data,
     wo_data |-> wo_data,
     wo_id |-> str_get(wo_data, "WorkOrderID"),
     children |-> toggle_buttons(str_get(wo_data, "Status"))]

\* The bot after WorkOrderCreateModal.on_submit has posted the control
\* message of a work order (lines 510-512): the view attached to the message
\* holds the project the modal was opened for and the row the API returned;
\* no handler is running (pc), no thread is being created, nothing clicked.
Posted(project_row, wo_row) ==
    [view |-> WorkOrderControlView(Kept(project_row, ProjectCells), Kept(wo_row, ViewCells)),
     pc |-> "",
     thread |-> "",
     last |-> [button |-> "", user |-> "", said |-> ""]]

\* The bot while it is not connected: it holds no view of the work order, the
\* API is used by its other clients.
Offline ==
    [view |-> WorkOrderControlView(None, None),
     pc |-> "",
     thread |-> "",
     last |-> [button |-> "", user |-> "", said |-> ""]]

\* The bot runs no handler and the server thread that serves it is free:
\* requests.put and requests.get block the bot until the answer is there.
Free == bot.pc = "" /\ req["t1"].pc = "idle"

\* requests.put(.../workorder/<wo_id>/<op>) of a button's handler: the request
\* reaches the server, the handler waits for its answer.
put(op, user) ==
    /\ req' = [req EXCEPT !["t1"] = [Idle EXCEPT !.op = op, !.wo_id = bot.view.wo_id,
                                                 !.user = user, !.pc = "find"]]
    /\ bot' = [bot EXCEPT !.pc = op,
                          !.last = [button |-> op, user |-> user, said |-> ""]]
    /\ UNCHANGED <<workorders_sheet, projects_sheet, now, response, threads, worked>>

\* The handler tells the user the button is not theirs to press and returns.
refuse(button, user) ==
    /\ bot' = [bot EXCEPT !.last = [button |-> button, user |-> user, said |-> "refused"]]
    /\ UNCHANGED <<workorders_sheet, projects_sheet, now, req, response, threads, worked>>

\* start_button, lines 614-624: a pushed work order is started by its
\* assignee only, going by the row the view has cached.
start_button(user) ==
    /\ Free
    /\ "start" \in bot.view.children
    /\ LET pushed_to == str_get(bot.view.wo_data, "PushedToUserID")
       IN  IF pushed_to \notin {"", "None"} /\ user # pushed_to
           THEN refuse("start", user)
           ELSE put("start", user)

\* pause_button, lines 700-709: the cached holder only.
pause_button(user) ==
    /\ Free
    /\ "pause" \in bot.view.children
    /\ IF user # str_get(bot.view.wo_data, "InProgressUserID")
       THEN refuse("pause", user)
       ELSE put("pause", user)

\* finish_button, lines 730-740: the cached holder only.
finish_button(user) ==
    /\ Free
    /\ "finish" \in bot.view.children
    /\ IF user # str_get(bot.view.wo_data, "InProgressUserID")
       THEN refuse("finish", user)
       ELSE put("finish", user)

\* approve_button, lines 765-774: the accountable person of the project dict
\* the view was built with.
approve_button(user) ==
    /\ Free
    /\ "approve" \in bot.view.children
    /\ IF user # str_get(bot.view.project_data, "AccountableID")
       THEN refuse("approve", user)
       ELSE put("approve", user)

\* rework_button, lines 799-808: the same test.
rework_button(user) ==
    /\ Free
    /\ "rework" \in bot.view.children
    /\ IF user # str_get(bot.view.project_data, "AccountableID")
       THEN refuse("rework", user)
       ELSE put("rework", user)

\* The rest of a button's handler, once the PUT is answered (lines 622-647,
\* 709-727, 738-762, 772-796, 806-829): an error status raises and is told
\* to the user; else the row is fetched with GET /workorder/<id>, cached, and
\* the buttons are set for its status; Approve then disables every button.
button_answered ==
    /\ bot.pc \in {"start", "pause", "finish", "approve", "rework"}
    /\ req["t1"].pc = "idle"
    /\ IF response.code # OK
       THEN bot' = [bot EXCEPT !.pc = "", !.last.said = "error"]
       ELSE LET f == find_row(workorders_sheet, "WorkOrderID", bot.view.wo_id)
                new_data == IF f.row_data = None THEN None
                            ELSE Kept(f.row_data, ViewCells)
            IN  bot' = [bot EXCEPT
                          !.pc = "",
                          !.last.said = "done",
                          !.view.wo_data = new_data,
                          !.view.children =
                              IF bot.pc = "approve" THEN {}
                              ELSE toggle_buttons(str_get(new_data, "Status"))]
    /\ UNCHANGED <<workorders_sheet, projects_sheet, now, req, response, threads, worked>>

\* timer_loop, bot_projects.py lines 60-105, for the work order of the view:
\* when the row is listed as InProgress and its thread exists, the row is
\* fetched and the control message gets a new view, built from the row and
\* an empty project dict (line 98), in place of the one it had.
timer_loop ==
    /\ Free
    /\ \E i \in 1..Len(workorders_sheet) :
          /\ workorders_sheet[i].Status = "InProgress"
          /\ workorders_sheet[i].ThreadID \in threads
          /\ workorders_sheet[i].WorkOrderID = bot.view.wo_id
    /\ bot' = [bot EXCEPT !.view =
                  WorkOrderControlView(None,
                      Kept(find_row(workorders_sheet, "WorkOrderID", bot.view.wo_id).row_data,
                           ViewCells))]
    /\ UNCHANGED <<workorders_sheet, projects_sheet, now, req, response, threads, worked>>

(* ------------------------------ the clock ----------------------------- *)

\* Time passes, up to tick `max`.
Tick(max) ==
    /\ now < max
    /\ now' = now + 1
    /\ UNCHANGED <<workorders_sheet, projects_sheet, req, response, bot, threads, worked>>

\* The wall clock datetime.now reads is set back by a tick (it is not a
\* monotonic clock), here only while the work order has no time logged yet.
ClockSetBack ==
    /\ now > 0
    /\ \A i \in 1..Len(workorders_sheet) : workorders_sheet[i].TotalTimeSeconds = 0
    /\ now' = now - 1
    /\ UNCHANGED <<workorders_sheet, projects_sheet, req, response, bot, threads, worked>>

\* Time passes in one stretch of d ticks, up to tick `max`.
Advance(d, max) ==
    /\ now + d <= max
    /\ now' = now + d
    /\ UNCHANGED <<workorders_sheet, projects_sheet, req, response, bot, threads, worked>>

\* A tick of the clock, entered in the ledger when it passes while the stored
\* Status of the first work order is InProgress, or while a Start that has
\* read the clock (line 326) has its write of InProgress still to do.
TickWorked(max) ==
    /\ now < max
    /\ now' = now + 1
    /\ worked' = IF \/ workorders_sheet[1].Status = "InProgress"
                    \/ \E t \in Threads : req[t].pc = "start_update"
                 THEN worked + 1 ELSE worked
    /\ UNCHANGED <<workorders_sheet, projects_sheet, req, response, bot, threads>>

\* Stretches of time between requests, in ticks: 125 seconds and 40 seconds;
\* and the tick the clock stops at, 205 seconds.
Stretches == {125 * TicksPerSecond, 40 * TicksPerSecond}
LastTick == 205 * TicksPerSecond

(* --------------------------- specifications --------------------------- *)

\* One project and one work order have been created (create_project,
\* create_work_order), the work order pushed to one of `pushed`; its thread
\* exists, the bot is not connected.
InitWith(pushed) ==
    /\ projects_sheet = <<ProjectRow("proj-1000", "A")>>
    /\ \E pushed_to \in pushed :
          workorders_sheet = <<WorkOrderRow("wo-1000-100", "proj-1000", pushed_to)>>
    /\ now = 0
    /\ req = [t \in Threads |-> Idle]
    /\ response = [op |-> "", code |-> 0]
    /\ bot = Offline
    /\ threads = {workorders_sheet[1].ThreadID}
    /\ worked = 0

Init == InitWith(Actors \cup {""})

\* Routes of the API, and the one the control view calls that the API lacks.
TimerRoutes == {"start", "pause", "finish"}
OtherRoutes == {"approve", "rework", "update", "cancel"}

\* A request for one of `routes`, with an identifier of `ids` in the URL,
\* arrives at a free thread of T.
Requests(T, routes, ids) ==
    \E t \in T, op \in routes, wo_id \in ids, user \in Actors :
        \E data \in IF op = "update" THEN Payloads ELSE {None} :
            request(t, op, wo_id, user, data)

\* A running handler of a timer route does its next step, its store call
\* ending in one of `outcomes`.
TimerSteps(outcomes) ==
    \E t \in Threads :
        \/ start_work_order(t)
        \/ start_work_order_now(t)
        \/ pause_work_order(t)
        \/ finish_work_order(t)
        \/ log_time_now(t)
        \/ \E ok \in outcomes :
              \/ start_work_order_update(t, ok)
              \/ log_time_update(t, ok)
              \/ pause_work_order_update(t, ok)
              \/ finish_work_order_update(t, ok)

\* A running handler of one of the other routes does its next step.
OtherSteps(outcomes) ==
    \E t \in Threads :
        \/ approve_work_order(t)
        \/ rework_work_order(t)
        \/ update_work_order(t)
        \/ update_work_order_find(t)
        \/ cancel_work_order(t)
        \/ \E ok \in outcomes :
              \/ approve_work_order_update(t, ok)
              \/ rework_work_order_update(t, ok)
              \/ update_work_order_update(t, ok)

\* The server handling one request at a time (thread t1), every route, store
\* calls succeeding or failing.
Next ==
    \/ Requests({"t1"}, TimerRoutes \cup OtherRoutes, WorkOrderIDs)
    \/ TimerSteps(StoreOutcomes)
    \/ OtherSteps(StoreOutcomes)
    \/ Tick(MaxNow)

Spec == Init /\ [][Next]_vars

\* The same server when every store call succeeds.
NextOK ==
    \/ Requests({"t1"}, TimerRoutes \cup OtherRoutes, WorkOrderIDs)
    \/ TimerSteps({TRUE})
    \/ OtherSteps({TRUE})
    \/ Tick(MaxNow)

SpecOK == Init /\ [][NextOK]_vars

\* The server handling requests of the timer routes concurrently on a work
\* order pushed to nobody, every store call succeeding.
NextConc ==
    \/ Requests(Threads, TimerRoutes, {"wo-1000-100"})
    \/ TimerSteps({TRUE})
    \/ Tick(MaxNow)

SpecConc == InitWith({""}) /\ [][NextConc]_vars

\* The server handling requests of the timer routes one at a time, every
\* store call succeeding, over a longer stretch of time.
NextTime ==
    \/ Requests({"t1"}, TimerRoutes, {"wo-1000-100"})
    \/ TimerSteps({TRUE})
    \/ Tick(MaxTime)

SpecTime == InitWith({""}) /\ [][NextTime]_vars

\* The server handling requests of the timer routes one at a time, every
\* store call succeeding, under a wall clock that may be set back.
NextSkew ==
    \/ Requests({"t1"}, TimerRoutes, {"wo-1000-100"})
    \/ TimerSteps({TRUE})
    \/ Tick(MaxNow)
    \/ ClockSetBack

SpecSkew == InitWith({""}) /\ [][NextSkew]_vars

\* A running handler of Approve does its next step.
ApproveSteps(outcomes) ==
    \E t \in Threads :
        \/ approve_work_order(t)
        \/ \E ok \in outcomes : approve_work_order_update(t, ok)

\* The server handling Start, Pause, Finish and Approve one at a time, every
\* store call succeeding, minutes passing between the requests.
NextLong ==
    \/ Requests({"t1"}, TimerRoutes \cup {"approve"}, {"wo-1000-100"})
    \/ TimerSteps({TRUE})
    \/ ApproveSteps({TRUE})
    \/ \E d \in Stretches : Advance(d, LastTick)

SpecLong == InitWith({""}) /\ [][NextLong]_vars

\* A running handler of Edit does its next step.
EditSteps(outcomes) ==
    \E t \in Threads :
        \/ update_work_order(t)
        \/ update_work_order_find(t)
        \/ \E ok \in outcomes : update_work_order_update(t, ok)

\* The server handling an Edit on one thread while a Start, Pause or Finish
\* runs on the other; the store calls of the timer routes succeed.
NextEdit ==
    \/ Requests({"t1"}, TimerRoutes, {"wo-1000-100"})
    \/ Requests({"t2"}, {"update"}, {"wo-1000-100"})
    \/ TimerSteps({TRUE})
    \/ EditSteps(StoreOutcomes)
    \/ Tick(MaxNow)

SpecEdit == InitWith({""}) /\ [][NextEdit]_vars

(* ------------------- projects, creation, rendering -------------------- *)

\* Routes on one project, and identifiers a client may put in their URL: the
\* project of the initial state and one no row has until it is created.
ProjectRoutes == {"get_project", "update_project", "finish_project"}
ProjectIDs == {project_id_of(n) : n \in ProjectNumbers}

\* JSON bodies a client sends to PUT /project/<id>: the edit modal's (Title,
\* Deliverables, KPI, DueDate), one naming a new accountable person, and two
\* naming a cell outside the allow-list.
StatusPayloads == {[Status |-> "Active"], [Status |-> "Archived"]}
ProjectPayloads ==
    {[Title |-> "p2", Deliverables |-> "pd1", KPI |-> "", DueDate |-> "2026-01-01"],
     [AccountableID |-> "B"]}
    \cup StatusPayloads

\* A JSON body sent to PUT /workorder/<id> that names the identifying cells of
\* the row beside a Title.
IdentityPayloads ==
    {[WorkOrderID |-> "wo-1001-101", ProjectID |-> "proj-1001", ThreadID |-> "th2",
      Title |-> "t2"]}

\* The sheets hold at most MaxRows data rows each: no create request arrives
\* once a sheet is that long.
MaxRows == 2

\* A request for one of `routes` on a work order, with an identifier of `ids`
\* in the URL, sent for one of `users`, an Edit with one of `payloads` as its
\* body, arrives at a free thread of T.
RequestsFrom(T, routes, ids, users, payloads) ==
    \E t \in T, op \in routes, wo_id \in ids, user \in users :
        \E data \in IF op = "update" THEN payloads ELSE {None} :
            request(t, op, wo_id, user, data)

\* A request for one of the project `routes`, with an identifier of `ids` in
\* the URL, arrives at a free thread of T.
ProjectRequests(T, routes, ids) ==
    \E t \in T, op \in routes, project_id \in ids, user \in Actors :
        \E data \in IF op = "update_project" THEN ProjectPayloads ELSE {None} :
            request(t, op, project_id, user, data)

\* A request to create a project arrives at a free thread of T.
CreateProjectRequests(T) ==
    \E t \in T :
        /\ Len(projects_sheet) < MaxRows
        /\ request(t, "create_project", "", "", [AccountableID |-> "A"])

\* A request to create a work order arrives at a free thread of T.
CreateWorkOrderRequests(T) ==
    \E t \in T, project_id \in ProjectIDs :
        /\ Len(workorders_sheet) < MaxRows
        /\ request(t, "create_work_order", "", "",
                   [ProjectID |-> project_id, ThreadID |-> "th1", PushedToUserID |-> ""])

\* A running handler of Edit Project or of GET /project does its next step.
ProjectSteps(outcomes) ==
    \E t \in Threads :
        \/ get_project(t)
        \/ update_project(t)
        \/ update_project_find(t)
        \/ \E ok \in outcomes : update_project_update(t, ok)

\* A running handler of Finish Project does its next step.
FinishProjectSteps(outcomes) ==
    \E t \in Threads :
        \/ finish_project(t)
        \/ \E moved \in FolderOutcomes : finish_project_move(t, moved)
        \/ \E ok \in outcomes : finish_project_update(t, ok)

\* A running handler of POST /project does its next step.
CreateProjectSteps(outcomes) ==
    \E t \in Threads :
        \/ \E created \in FolderOutcomes, n \in ProjectNumbers : create_project(t, created, n)
        \/ \E ok \in outcomes : create_project_append(t, ok)

\* A running handler of POST /workorder does its next step.
CreateWorkOrderSteps(outcomes) ==
    \E t \in Threads :
        \/ \E created \in FolderOutcomes, n \in WorkOrderNumbers : create_work_order(t, created, n)
        \/ \E ok \in outcomes : create_work_order_append(t, ok)

\* A running handler of a route the views render from does its step.
ShowSteps ==
    \E t \in Threads :
        \/ get_work_order(t)
        \/ get_in_progress_work_orders(t)

\* The server handling every route on one work order and one project, one
\* request at a time, at one moment of the clock, store calls succeeding or
\* failing; the requests on the work order are sent for actor A.
NextAll ==
    \/ RequestsFrom({"t1"}, TimerRoutes \cup OtherRoutes \cup {"get", "inprogress"},
                    WorkOrderIDs, {"A"}, IdentityPayloads \cup StatusPayloads)
    \/ ProjectRequests({"t1"}, ProjectRoutes, ProjectIDs)
    \/ TimerSteps(StoreOutcomes)
    \/ OtherSteps(StoreOutcomes)
    \/ ShowSteps
    \/ ProjectSteps(StoreOutcomes)
    \/ FinishProjectSteps(StoreOutcomes)

SpecAll == InitWith({""}) /\ [][NextAll]_vars

\* The server creating projects and work orders and finishing projects, one
\* request at a time, store and folder calls succeeding or failing.
NextCreate ==
    \/ CreateProjectRequests({"t1"})
    \/ CreateWorkOrderRequests({"t1"})
    \/ ProjectRequests({"t1"}, {"finish_project"}, ProjectIDs)
    \/ CreateProjectSteps(StoreOutcomes)
    \/ CreateWorkOrderSteps(StoreOutcomes)
    \/ FinishProjectSteps(StoreOutcomes)

SpecCreate == InitWith({""}) /\ [][NextCreate]_vars

\* The identifiers create_work_order may give a work order of a project.
WorkOrderIDsOf(project_id) == {wo_id_of(project_id, n) : n \in WorkOrderNumbers}

\* The server creating work orders under the project and handling every
\* route on them, one request at a time, at one moment of the clock, store
\* calls succeeding or failing; the requests are sent for actor A.
NextRows ==
    \/ CreateWorkOrderRequests({"t1"})
    \/ RequestsFrom({"t1"}, TimerRoutes \cup OtherRoutes, WorkOrderIDsOf("proj-1000"),
                    {"A"}, IdentityPayloads)
    \/ CreateWorkOrderSteps(StoreOutcomes)
    \/ TimerSteps(StoreOutcomes)
    \/ OtherSteps(StoreOutcomes)

SpecRows == InitWith({""}) /\ [][NextRows]_vars

\* The server handling Start, Pause and Finish one at a time on one thread and
\* the requests the views and the timer loop render from on the other, every
\* store call succeeding, over a longer stretch of time; the requests are sent
\* for actor A.
NextShow ==
    \/ RequestsFrom({"t1"}, TimerRoutes, {"wo-1000-100"}, {"A"}, {})
    \/ RequestsFrom({"t2"}, {"get", "inprogress"}, {"wo-1000-100"}, {"A"}, {})
    \/ TimerSteps({TRUE})
    \/ ShowSteps
    \/ Tick(MaxTime)

SpecShow == InitWith({""}) /\ [][NextShow]_vars

(* ----------------------- assignment at creation ----------------------- *)

\* The assignments the work order modal sends: nobody, or actor B (bot_ui.py
\* line 490, "PushedToUserID": pushed_to_user_id).
Assignments == {"", "B"}

\* A request to create a work order, assigned or not, arrives at a free
\* thread of T; its project is the stored one or one the sheet does not hold.
AssignedWorkOrderRequests(T) ==
    \E t \in T, project_id \in ProjectIDs, pushed_to \in Assignments :
        /\ Len(workorders_sheet) < MaxRows
        /\ request(t, "create_work_order", "", "",
                   [ProjectID |-> project_id, ThreadID |-> "th1",
                    PushedToUserID |-> pushed_to])

\* A running handler of Start does its next step.
StartSteps(outcomes) ==
    \E t \in Threads :
        \/ start_work_order(t)
        \/ start_work_order_now(t)
        \/ \E ok \in outcomes : start_work_order_update(t, ok)

\* The server creating work orders, assigned or not, and starting them, one
\* request at a time, at one moment of the clock, store calls succeeding or
\* failing.
NextAssign ==
    \/ AssignedWorkOrderRequests({"t1"})
    \/ RequestsFrom({"t1"}, {"start"}, WorkOrderIDsOf("proj-1000"), Actors, {})
    \/ CreateWorkOrderSteps(StoreOutcomes)
    \/ create_work_order_find_fails("t1")
    \/ StartSteps(StoreOutcomes)

SpecAssign == InitWith({""}) /\ [][NextAssign]_vars

(* ------------------------- the bot and the API ------------------------ *)

\* Identifiers the chat platform gives to threads.
ThreadIDs == {"th1", "th2", "th3"}

\* WorkOrderCreateModal.on_submit, bot_ui.py lines 473-494: a thread is
\* created, then POST /workorder is sent with the thread's identifier, the
\* project the modal was opened for and the assignment.
WorkOrderCreateModal_on_submit(thread_id, pushed_to) ==
    /\ Free
    /\ Len(workorders_sheet) < MaxRows
    /\ thread_id \in ThreadIDs \ threads
    /\ \A i \in 1..Len(workorders_sheet) : workorders_sheet[i].ThreadID # thread_id
    /\ threads' = threads \cup {thread_id}
    /\ req' = [req EXCEPT !["t1"] =
                  [Idle EXCEPT !.op = "create_work_order",
                               !.data = [ProjectID |-> projects_sheet[1].ProjectID,
                                         ThreadID |-> thread_id,
                                         PushedToUserID |-> pushed_to],
                               !.pc = "find"]]
    /\ bot' = [bot EXCEPT !.pc = "create_work_order",
                          !.thread = thread_id,
                          !.last = [button |-> "create_work_order", user |-> "", said |-> ""]]
    /\ UNCHANGED <<workorders_sheet, projects_sheet, now, response, worked>>

\* lines 494-515, once the POST is answered: an error status raises and the
\* thread is deleted; else the control message is posted in the thread.
WorkOrderCreateModal_answered ==
    /\ bot.pc = "create_work_order"
    /\ req["t1"].pc = "idle"
    /\ threads' = IF response.code = Created THEN threads ELSE threads \ {bot.thread}
    /\ bot' = [bot EXCEPT !.pc = "",
                          !.thread = "",
                          !.last.said = IF response.code = Created THEN "done" ELSE "error"]
    /\ UNCHANGED <<workorders_sheet, projects_sheet, now, req, response, worked>>

\* Statuses a stored row may carry when a view is built for it: the six of
\* the design and one that is none of them (the sheet is a spreadsheet that
\* is also edited by hand).
Statuses == {"Open", "Rework", "InProgress", "InQA", "Approved", "Cancelled", "Archived"}

\* A row in a given status, as the routes leave it: held and timed by actor A
\* when InProgress, submitted by A when InQA.
RowIn(status) ==
    [WorkOrderRow("wo-1000-100", "proj-1000", "") EXCEPT
        !.Status = status,
        !.InProgressUserID = IF status = "InProgress" THEN "A" ELSE "",
        !.CurrentStartTime = IF status = "InProgress" THEN <<0>> ELSE <<>>,
        !.QA_SubmittedByID = IF status = "InQA" THEN "A" ELSE ""]

\* The bot comes up with the control message of a work order in any status.
InitBot ==
    /\ projects_sheet = <<ProjectRow("proj-1000", "A")>>
    /\ \E status \in Statuses : workorders_sheet = <<RowIn(status)>>
    /\ now = 0
    /\ req = [t \in Threads |-> Idle]
    /\ response = [op |-> "", code |-> 0]
    /\ bot = Posted(projects_sheet[1], workorders_sheet[1])
    /\ threads = {workorders_sheet[1].ThreadID}
    /\ worked = 0

\* A running handler of Rework does its next step.
ReworkSteps(outcomes) ==
    \E t \in Threads :
        \/ rework_work_order(t)
        \/ \E ok \in outcomes : rework_work_order_update(t, ok)

\* The people of the server press the buttons of the control view, the timer
\* loop runs, work orders are created through the modal; the API handles the
\* bot's requests one at a time, every store call succeeding or failing.
NextBot ==
    \/ \E user \in Actors :
          \/ start_button(user)
          \/ pause_button(user)
          \/ finish_button(user)
          \/ approve_button(user)
          \/ rework_button(user)
    \/ button_answered
    \/ timer_loop
    \/ \E thread_id \in ThreadIDs, pushed_to \in Assignments :
          WorkOrderCreateModal_on_submit(thread_id, pushed_to)
    \/ WorkOrderCreateModal_answered
    \/ TimerSteps(StoreOutcomes)
    \/ ApproveSteps(StoreOutcomes)
    \/ ReworkSteps(StoreOutcomes)
    \/ CreateWorkOrderSteps(StoreOutcomes)
    \/ create_work_order_find_fails("t1")

SpecBot == InitBot /\ [][NextBot]_vars

(* ------------------------- the ledger of work ------------------------- *)

\* The server handling Start, Pause and Finish concurrently on a work order
\* pushed to nobody, every store call succeeding, the requests sent for actor
\* A, each tick of the clock entered in the ledger.
NextWorked ==
    \/ RequestsFrom(Threads, TimerRoutes, {"wo-1000-100"}, {"A"}, {})
    \/ TimerSteps({TRUE})
    \/ TickWorked(MaxNow)

SpecWorked == InitWith({""}) /\ [][NextWorked]_vars

(* ------------------------------- claims ------------------------------- *)

\* The data rows of the WorkOrders sheet.
Rows == 1..Len(workorders_sheet)

\* The stored row the request of thread t names, None when there is none.
Stored(t) == find_row(workorders_sheet, "WorkOrderID", req[t].wo_id).row_data

\* The same row after the step.
StoredAfter(t) == find_row(workorders_sheet', "WorkOrderID", req[t].wo_id).row_data

\* Thread t takes a step.
Moves(t) == req'[t] # req[t]

\* Thread t answers its request in this step, with a code of `codes`.
Answers(t, codes) ==
    /\ req[t].pc # "idle"
    /\ req'[t].pc = "idle"
    /\ response'.op = req[t].op
    /\ response'.code \in codes

\* Thread t answers its request in this step with 200.
Succeeds(t) == Answers(t, {OK})

\* C1: in every state, also between the two store writes of one Pause or
\* Finish, every work order row has CurrentStartTime non-empty if and only if
\* its Status is InProgress.
C1_StartTimeIffInProgress ==
    \A i \in Rows :
        (workorders_sheet[i].CurrentStartTime # <<>>)
            <=> (workorders_sheet[i].Status = "InProgress")

\* C2: a Start on a row whose stored Status is not Open or Rework does not
\* succeed and leaves Status, InProgressUserID and CurrentStartTime as they
\* were.
C2_StartOnlyFromOpenOrRework ==
    [][\A t \in Threads :
          (/\ req[t].op = "start"
           /\ Moves(t)
           /\ Stored(t) # None
           /\ Stored(t).Status \notin {"Open", "Rework"})
          => /\ ~Succeeds(t)
             /\ StoredAfter(t).Status = Stored(t).Status
             /\ StoredAfter(t).InProgressUserID = Stored(t).InProgressUserID
             /\ StoredAfter(t).CurrentStartTime = Stored(t).CurrentStartTime]_vars

\* C3: an Approve or a Rework on a row whose stored Status is not InQA does
\* not succeed and leaves every cell of the row as it was.
C3_ApproveReworkOnlyFromInQA ==
    [][\A t \in Threads :
          (/\ req[t].op \in {"approve", "rework"}
           /\ Moves(t)
           /\ Stored(t) # None
           /\ Stored(t).Status # "InQA")
          => /\ ~Succeeds(t)
             /\ StoredAfter(t) = Stored(t)]_vars

\* C4: a Pause or a Finish on a row whose stored Status is not InProgress does
\* not succeed and leaves every cell of the row as it was.
C4_PauseFinishOnlyFromInProgress ==
    [][\A t \in Threads :
          (/\ req[t].op \in {"pause", "finish"}
           /\ Moves(t)
           /\ Stored(t) # None
           /\ Stored(t).Status # "InProgress")
          => /\ ~Succeeds(t)
             /\ StoredAfter(t) = Stored(t)]_vars

\* C5: once the Status of a row is Approved or Cancelled, no step changes it.
C5_TerminalStatusStays ==
    [][\A i \in Rows :
          workorders_sheet[i].Status \in {"Approved", "Cancelled"}
          => workorders_sheet'[i].Status = workorders_sheet[i].Status]_vars

\* C6: a Start on a row pushed to a user is refused with 403 for every other
\* requester, the sheet unchanged; from the user it is pushed to, and from
\* anybody when the row is pushed to nobody, it is accepted: the handler goes
\* on to its write and answers 200.
C6_StartPushedGate ==
    [][\A t \in Threads :
          /\ (At(t, "start") /\ Moves(t) /\ Stored(t) # None)
             => IF Stored(t).PushedToUserID \notin {"", req[t].user}
                THEN Answers(t, {Forbidden}) /\ workorders_sheet' = workorders_sheet
                ELSE req'[t].pc = "start_now"
          /\ (req[t].pc = "start_update" /\ Moves(t)) => Succeeds(t)]_vars

\* A Start has been refused with 403 on a row pushed to a user, the row as it
\* was created.
C6_Witness ==
    /\ response = [op |-> "start", code |-> Forbidden]
    /\ \E u \in Actors :
          workorders_sheet[1] = WorkOrderRow("wo-1000-100", "proj-1000", u)

\* C7: a Pause or a Finish on an InProgress row by a requester who is not the
\* stored InProgressUserID is refused with 403, never answered with 200, and
\* leaves the row as it was.
C7_PauseFinishOnlyByHolder ==
    [][\A t \in Threads :
          (/\ req[t].op \in {"pause", "finish"}
           /\ Moves(t)
           /\ Stored(t) # None
           /\ Stored(t).Status = "InProgress"
           /\ Stored(t).InProgressUserID \notin {"", req[t].user})
          => /\ At(t, req[t].op) => Answers(t, {Forbidden})
             /\ ~Succeeds(t)
             /\ StoredAfter(t) = Stored(t)]_vars

\* The AccountableID stored in the parent project of a work order row.
Accountable(row_data) ==
    find_row(projects_sheet, "ProjectID", row_data.ProjectID).row_data.AccountableID

\* C8: an Approve or a Rework on an InQA row by a requester who is not the
\* AccountableID stored in the parent project is refused with 403, never
\* answered with 200, and leaves the row as it was.
C8_ApproveReworkOnlyByAccountable ==
    [][\A t \in Threads :
          (/\ req[t].op \in {"approve", "rework"}
           /\ Moves(t)
           /\ Stored(t) # None
           /\ Stored(t).Status = "InQA"
           /\ Accountable(Stored(t)) # req[t].user)
          => /\ At(t, req[t].op) => Answers(t, {Forbidden})
             /\ ~Succeeds(t)
             /\ StoredAfter(t) = Stored(t)]_vars

\* C9: the write of a Start that has passed its checks always lands, whatever
\* the row holds by then: afterwards the row is InProgress with this request's
\* user and start time, any earlier holder gone, and the request is answered
\* 200.
C9_LaterStartOverwrites ==
    [][\A t \in Threads :
          (req[t].pc = "start_update" /\ Moves(t))
          => /\ Succeeds(t)
             /\ StoredAfter(t).Status = "InProgress"
             /\ StoredAfter(t).InProgressUserID = req[t].user
             /\ StoredAfter(t).CurrentStartTime = req[t].headers.CurrentStartTime]_vars

\* Two Start requests of different users have both passed their checks on the
\* same Open row, nothing having been written or answered yet, and both are
\* about to write.
C9_Witness ==
    /\ response.op = ""
    /\ workorders_sheet[1] = WorkOrderRow("wo-1000-100", "proj-1000", "")
    /\ req["t1"].pc = "start_update"
    /\ req["t2"].pc = "start_update"
    /\ req["t1"].user # req["t2"].user

\* |k * d - n| <= d / 2: k is n / d rounded to a nearest integer.
Nearest(k, n, d) == 2 * (k * d - n) <= d /\ 2 * (n - k * d) <= d

\* C10: when a Pause or a Finish flushes the timer at a clock reading not
\* before CurrentStartTime, the total it writes is the stored total plus the
\* time from CurrentStartTime to that reading, to a nearest whole second, and
\* that total is what the row holds after the write.
C10_FlushAddsElapsed ==
    [][\A t \in Threads :
          /\ (/\ req[t].pc = "log_time_now"
              /\ Moves(t)
              /\ now >= Stored(t).CurrentStartTime[1])
             => Nearest(req'[t].headers.TotalTimeSeconds,
                        TicksPerSecond * Stored(t).TotalTimeSeconds
                            + (now - Stored(t).CurrentStartTime[1]),
                        TicksPerSecond)
          /\ (req[t].pc = "log_time_update" /\ Moves(t))
             => /\ StoredAfter(t).TotalTimeSeconds = req[t].headers.TotalTimeSeconds
                /\ StoredAfter(t).CurrentStartTime = <<>>]_vars

\* Two flushes have added up: the row holds three seconds after five ticks of
\* the clock, more than one flush alone can give by then (a first flush of a
\* second and a half, a second flush of one second), the timer stopped, the
\* request answered 200.
C10_Witness ==
    /\ workorders_sheet[1].TotalTimeSeconds = 3
    /\ workorders_sheet[1].CurrentStartTime = <<>>
    /\ response.op \in {"pause", "finish"}
    /\ response.code = OK
    /\ now = 5

\* C11: when the clock read at a flush is earlier than the stored
\* CurrentStartTime, the total the flush writes is the stored total.
C11_FlushClampsSkew ==
    [][\A t \in Threads :
          (/\ req[t].pc = "log_time_now"
           /\ Moves(t)
           /\ now < Stored(t).CurrentStartTime[1])
          => req'[t].headers.TotalTimeSeconds = Stored(t).TotalTimeSeconds]_vars

\* C12: a Pause or a Finish on a row whose CurrentStartTime is empty skips the
\* flush: it computes no total and writes none, and its own write leaves
\* TotalTimeSeconds as it was, whatever the clock reads; so a Pause after a
\* Pause yields the same total.
C12_FlushIdempotent ==
    [][\A t \in Threads :
          /\ (/\ req[t].op \in {"pause", "finish"}
              /\ req[t].pc = "find"
              /\ Moves(t)
              /\ Stored(t) # None
              /\ Stored(t).CurrentStartTime = <<>>)
             => /\ req'[t].pc \in {"pause_update", "finish_update"}
                /\ "TotalTimeSeconds" \notin DOMAIN req'[t].headers
                /\ workorders_sheet' = workorders_sheet
          /\ (req[t].pc \in {"pause_update", "finish_update"} /\ Moves(t))
             => StoredAfter(t).TotalTimeSeconds = Stored(t).TotalTimeSeconds]_vars

\* A Pause follows a Pause: the last request answered was a Pause, the row
\* holds the second it flushed, the clock has run on to its end, and the next
\* Pause is past _log_time without a flush, about to write Status.
C12_Witness ==
    /\ response = [op |-> "pause", code |-> OK]
    /\ req["t1"].op = "pause"
    /\ req["t1"].pc = "pause_update"
    /\ workorders_sheet[1].TotalTimeSeconds = 1
    /\ workorders_sheet[1].CurrentStartTime = <<>>
    /\ now = MaxTime

\* C13: the TotalTimeSeconds of every row is a non-negative integer and no
\* step makes it smaller.
C13_TotalNeverDecreases ==
    [][\A i \in Rows :
          /\ workorders_sheet'[i].TotalTimeSeconds \in Nat
          /\ workorders_sheet'[i].TotalTimeSeconds >= workorders_sheet[i].TotalTimeSeconds]_vars

\* C14: a step that changes the TotalTimeSeconds of a row is the flush write
\* of a Pause or a Finish; no step of a Start, an Approve, a Rework, a Cancel
\* or an Edit changes it.
C14_OnlyFlushChangesTotal ==
    [][/\ \A i \in Rows :
             workorders_sheet'[i].TotalTimeSeconds # workorders_sheet[i].TotalTimeSeconds
             => \E t \in Threads : /\ req[t].op \in {"pause", "finish"}
                                   /\ req[t].pc = "log_time_update"
                                   /\ Moves(t)
       /\ \A t \in Threads :
             (/\ req[t].op \in {"start", "approve", "rework", "cancel", "update"}
              /\ Moves(t)
              /\ Stored(t) # None)
             => StoredAfter(t).TotalTimeSeconds = Stored(t).TotalTimeSeconds]_vars

\* An Approve has been answered 200 on a row with a second logged: the row is
\* Approved and still holds the second.
C14_Witness ==
    /\ response = [op |-> "approve", code |-> OK]
    /\ workorders_sheet[1].Status = "Approved"
    /\ workorders_sheet[1].TotalTimeSeconds = 1

\* The row of thread t's request before the step, with the cells of `cells`
\* replaced.
StoredWith(t, cells) ==
    [k \in DOMAIN Stored(t) |-> IF k \in DOMAIN cells THEN cells[k] ELSE Stored(t)[k]]

\* C15: the scenario, step by step.  On the row as created (Open, total 0) a
\* Start by A read at T0 writes InProgress, A and T0.  A Pause or Finish on a
\* running row goes to the flush with the row as stored; a flush read 125 s
\* after CurrentStartTime on total 0 computes 125, one read 40 s after it on
\* total 125 computes 165; the flush write stores that total and empties
\* CurrentStartTime and InProgressUserID; Pause then writes Open, Finish InQA
\* with the requester as QA_SubmittedByID; Approve then writes Approved with
\* InProgressUserID, CurrentStartTime and QA_SubmittedByID empty.  Each write
\* changes no other cell and each request is answered 200.
C15_Scenario ==
    [][\A t \in Threads : Moves(t) =>
          /\ req[t].pc = "start_now"
             => req'[t].headers = [Status |-> "InProgress",
                                   InProgressUserID |-> req[t].user,
                                   CurrentStartTime |-> <<now>>]
          /\ req[t].pc = "start_update"
             => Succeeds(t) /\ StoredAfter(t) = StoredWith(t, req[t].headers)
          /\ (req[t].op \in {"pause", "finish"} /\ req[t].pc = "find"
                /\ Stored(t).CurrentStartTime # <<>>)
             => /\ req'[t].pc = "log_time_now"
                /\ req'[t].row_data.CurrentStartTime = Stored(t).CurrentStartTime
                /\ req'[t].row_data.TotalTimeSeconds = Stored(t).TotalTimeSeconds
          /\ (req[t].pc = "log_time_now" /\ Stored(t).TotalTimeSeconds = 0
                /\ now - Stored(t).CurrentStartTime[1] = 125 * TicksPerSecond)
             => req'[t].headers.TotalTimeSeconds = 125
          /\ (req[t].pc = "log_time_now" /\ Stored(t).TotalTimeSeconds = 125
                /\ now - Stored(t).CurrentStartTime[1] = 40 * TicksPerSecond)
             => req'[t].headers.TotalTimeSeconds = 165
          /\ req[t].pc = "log_time_update"
             => StoredAfter(t) =
                   StoredWith(t, [TotalTimeSeconds |-> req[t].headers.TotalTimeSeconds,
                                  CurrentStartTime |-> <<>>,
                                  InProgressUserID |-> ""])
          /\ req[t].pc = "pause_update"
             => Succeeds(t) /\ StoredAfter(t) = StoredWith(t, [Status |-> "Open"])
          /\ req[t].pc = "finish_update"
             => /\ Succeeds(t)
                /\ StoredAfter(t) = StoredWith(t, [Status |-> "InQA",
                                                   QA_SubmittedByID |-> req[t].user])
          /\ req[t].pc = "approve_update"
             => /\ Succeeds(t)
                /\ StoredAfter(t) = StoredWith(t, [Status |-> "Approved",
                                                   InProgressUserID |-> "",
                                                   CurrentStartTime |-> <<>>,
                                                   QA_SubmittedByID |-> ""])]_vars

\* The scenario up to its Finish: the row holds the 125 seconds of the Pause
\* at T0 + 125 s, A has started it again at T1 = T0 + 125 s, and A's Finish,
\* reading the clock at T1 + 40 s, has computed 165 and is about to write it;
\* the last request answered is the second Start.
C15_Witness ==
    /\ response = [op |-> "start", code |-> OK]
    /\ now = 165 * TicksPerSecond
    /\ workorders_sheet[1].Status = "InProgress"
    /\ workorders_sheet[1].InProgressUserID = "A"
    /\ workorders_sheet[1].TotalTimeSeconds = 125
    /\ workorders_sheet[1].CurrentStartTime = <<125 * TicksPerSecond>>
    /\ workorders_sheet[1].QA_SubmittedByID = ""
    /\ req["t1"].op = "finish"
    /\ req["t1"].user = "A"
    /\ req["t1"].pc = "log_time_update"
    /\ req["t1"].headers.TotalTimeSeconds = 165

\* C16: when a Finish on an InProgress row is answered 200, the row is InQA
\* with the requester as QA_SubmittedByID and CurrentStartTime and
\* InProgressUserID empty; when a Pause is, the row is Open with both empty;
\* and after the flush write of either the row holds the total the flush
\* computed.
C16_FinishPauseResult ==
    [][\A t \in Threads :
          /\ (req[t].pc = "log_time_update" /\ Moves(t))
             => StoredAfter(t).TotalTimeSeconds = req[t].headers.TotalTimeSeconds
          /\ (/\ req[t].op \in {"pause", "finish"}
              /\ Stored(t) # None
              /\ Stored(t).Status = "InProgress"
              /\ Succeeds(t))
             => /\ StoredAfter(t).Status = IF req[t].op = "pause" THEN "Open" ELSE "InQA"
                /\ req[t].op = "finish" => StoredAfter(t).QA_SubmittedByID = req[t].user
                /\ StoredAfter(t).CurrentStartTime = <<>>
                /\ StoredAfter(t).InProgressUserID = ""]_vars

\* C17: in every state, a row whose InProgressUserID is non-empty has Status
\* InProgress.
C17_HolderOnlyInProgress ==
    \A i \in Rows :
        workorders_sheet[i].InProgressUserID # ""
            => workorders_sheet[i].Status = "InProgress"

\* C18: in every state, a row whose QA_SubmittedByID is non-empty has Status
\* InQA.
C18_SubmitterOnlyInQA ==
    \A i \in Rows :
        workorders_sheet[i].QA_SubmittedByID # ""
            => workorders_sheet[i].Status = "InQA"

\* C19: a Cancel on a row whose Status is Open, InProgress, InQA or Rework is
\* answered 200 and leaves the row with Status Cancelled.
C19_CancelSucceeds ==
    [][\A t \in Threads :
          (/\ req[t].op = "cancel"
           /\ Moves(t)
           /\ req'[t].pc = "idle"
           /\ Stored(t) # None
           /\ Stored(t).Status \in {"Open", "InProgress", "InQA", "Rework"})
          => /\ Succeeds(t)
             /\ StoredAfter(t).Status = "Cancelled"]_vars

\* C20: an Edit prepares to write exactly the keys of its body that are Title,
\* Deliverables or PushedToUserID, with the body's values; a step of an Edit
\* changes a cell of the row only if it is one of those and to that value,
\* whatever other requests have done to the row meanwhile; and when its write
\* succeeds the row holds those values.
C20_EditWritesAllowListOnly ==
    [][\A t \in Threads : (req[t].op = "update" /\ Moves(t) /\ Stored(t) # None) =>
          /\ req[t].pc = "find"
             => /\ req'[t].pc = "update_update"
                /\ DOMAIN req'[t].headers
                      = DOMAIN req[t].data \cap {"Title", "Deliverables", "PushedToUserID"}
                /\ \A k \in DOMAIN req'[t].headers : req'[t].headers[k] = req[t].data[k]
          /\ \A k \in DOMAIN Stored(t) :
                StoredAfter(t)[k] # Stored(t)[k]
                => /\ k \in {"Title", "Deliverables", "PushedToUserID"}
                   /\ k \in DOMAIN req[t].headers
                   /\ StoredAfter(t)[k] = req[t].headers[k]
          /\ (req[t].pc = "update_update" /\ req'[t].pc = "update_find")
             => \A k \in DOMAIN req[t].headers : StoredAfter(t)[k] = req[t].headers[k]]_vars

\* An Edit has written a new Title between the two writes of a Pause: the
\* Pause has flushed a second and is about to write Status, the Edit is about
\* to read the row again, and the row has the new Title, the flushed total
\* and the Status the Pause found.
C20_Witness ==
    /\ req["t1"].op = "pause"
    /\ req["t1"].pc = "pause_update"
    /\ req["t2"].pc = "update_find"
    /\ workorders_sheet[1].Title = "t2"
    /\ workorders_sheet[1].Status = "InProgress"
    /\ workorders_sheet[1].CurrentStartTime = <<>>
    /\ workorders_sheet[1].TotalTimeSeconds = 1

\* C21: no step changes the WorkOrderID, the ProjectID or the ThreadID of a
\* stored work order row, whatever the body of an Edit names, and no step
\* removes a row: the WorkOrders sheet only grows, by the rows
\* create_work_order appends.
C21_IdentityFrame ==
    [][/\ Len(workorders_sheet') >= Len(workorders_sheet)
       /\ \A i \in Rows :
             \A k \in {"WorkOrderID", "ProjectID", "ThreadID"} :
                 workorders_sheet'[i][k] = workorders_sheet[i][k]]_vars

\* C21's case: a second work order has been created and an Edit whose body
\* names the identifying cells has been applied to it and answered 200.
C21_Witness ==
    /\ Len(workorders_sheet) = 2
    /\ workorders_sheet[2].WorkOrderID = "wo-1000-101"
    /\ workorders_sheet[2].Title = "t2"
    /\ response = [op |-> "update", code |-> OK]

\* C22: after any sequence of create_project and create_work_order no two
\* rows of a sheet hold the same identifier: looking up the identifier of a
\* stored row finds that very row.
C22_IdentifiersUnique ==
    /\ \A i \in 1..Len(projects_sheet) :
          find_row(projects_sheet, "ProjectID", projects_sheet[i].ProjectID).row_num = i + 1
    /\ \A i \in 1..Len(workorders_sheet) :
          find_row(workorders_sheet, "WorkOrderID",
                   workorders_sheet[i].WorkOrderID).row_num = i + 1

\* C23: a store write of Start, Pause, Finish, Approve or Rework that fails
\* (the cells the handler set out to write are not in the row after the step)
\* ends the operation with the answer 500: the handler neither answers 200
\* nor goes on to a further write.
C23_FailedWriteAborts ==
    [][\A t \in Threads :
          (/\ req[t].pc \in {"start_update", "log_time_update", "pause_update",
                             "finish_update", "approve_update", "rework_update"}
           /\ Moves(t)
           /\ \E k \in DOMAIN req[t].headers :
                 workorders_sheet'[req[t].row_num - 1][k] # req[t].headers[k])
          => Answers(t, {UpstreamFailure})]_vars

\* The stored project row the request of thread t names, None when there is
\* none.
StoredProject(t) == find_row(projects_sheet, "ProjectID", req[t].wo_id).row_data

\* C24: a get, update, start, pause, finish, approve or rework of a work
\* order, or a get, update or finish of a project, whose identifier no row
\* holds is answered 404 in its first step, and that step writes to neither
\* sheet.
C24_UnknownIdNotFound ==
    [][\A t \in Threads :
          (/\ req[t].pc = "find"
           /\ Moves(t)
           /\ \/ /\ req[t].op \in {"get", "update", "start", "pause", "finish",
                                   "approve", "rework"}
                 /\ Stored(t) = None
              \/ /\ req[t].op \in ProjectRoutes
                 /\ StoredProject(t) = None)
          => /\ Answers(t, {NotFound})
             /\ UNCHANGED <<workorders_sheet, projects_sheet>>]_vars

\* C24's case: a Finish Project naming an identifier no row holds has been
\* answered 404, the project that exists still Active.
C24_Witness ==
    /\ response = [op |-> "finish_project", code |-> NotFound]
    /\ \A i \in 1..Len(projects_sheet) :
          /\ projects_sheet[i].ProjectID # "proj-1001"
          /\ projects_sheet[i].Status = "Active"

\* C25: in every state, also after operations whose store write failed, the
\* Status of every work order row is one of Open, InProgress, InQA, Approved,
\* Rework, Cancelled and the Status of every project row is Active or
\* Finished.
C25_StatusInDefinedSet ==
    /\ \A i \in Rows :
          workorders_sheet[i].Status \in {"Open", "InProgress", "InQA", "Approved",
                                          "Rework", "Cancelled"}
    /\ \A i \in 1..Len(projects_sheet) :
          projects_sheet[i].Status \in {"Active", "Finished"}

\* C25's case: Edits whose bodies name a Status have gone through, the work
\* order is in review with its Title edited, the project is Finished, and the
\* last request, an Approve, was answered 200 though its write failed.
C25_Witness ==
    /\ workorders_sheet[1].Status = "InQA"
    /\ workorders_sheet[1].Title = "t2"
    /\ projects_sheet[1].Status = "Finished"
    /\ response = [op |-> "approve", code |-> OK]

\* C26: no step takes a project row out of Status Finished: whatever Edit
\* Project, Finish Project or work-order request is handled afterwards, the
\* row stays Finished.
C26_FinishedStaysFinished ==
    [][\A i \in 1..Len(projects_sheet) :
          projects_sheet[i].Status = "Finished" => projects_sheet'[i].Status = "Finished"]_vars

\* C26's case: the project has been finished and an Edit Project, which reset
\* the DueDate the finish wrote, has been applied to it since and answered 200.
C26_Witness ==
    /\ projects_sheet[1].Status = "Finished"
    /\ projects_sheet[1].DueDate = "2026-01-01"
    /\ projects_sheet[1].Title = "p2"
    /\ response = [op |-> "update_project", code |-> OK]

\* C27: a Finish Project changes the project row or is answered 200 only when
\* the actor it is sent for is the AccountableID the row holds at that step.
C27_FinishProjectOnlyByAccountable ==
    [][\A t \in Threads :
          (/\ req[t].op = "finish_project"
           /\ Succeeds(t) \/ projects_sheet' # projects_sheet)
          => req[t].user = StoredProject(t).AccountableID]_vars

\* The project row the request of thread t names, after the step.
StoredProjectAfter(t) == find_row(projects_sheet', "ProjectID", req[t].wo_id).row_data

\* C28: an Edit Project on a project whose Status is Finished is rejected: no
\* step of it is answered 200, and none changes the Title, Deliverables, KPI,
\* DueDate or AccountableID of the row.
C28_EditOnlyWhileActive ==
    [][\A t \in Threads :
          (/\ req[t].op = "update_project"
           /\ Moves(t)
           /\ StoredProject(t) # None
           /\ StoredProject(t).Status = "Finished")
          => /\ ~Succeeds(t)
             /\ \A k \in {"Title", "Deliverables", "KPI", "DueDate", "AccountableID"} :
                   StoredProjectAfter(t)[k] = StoredProject(t)[k]]_vars

\* C29: a call of the folder service, whether it succeeds or fails, never
\* ends the operation it is part of.  The folder step of Finish Project goes
\* on to the write of Status Finished, and a Finish Project answered 200
\* leaves the row Finished; the folder step of create_project goes on to the
\* append with the folder URL or a blank in the row, the one of
\* create_work_order (the parent project found) goes on to the append; a
\* create answered 201 has appended its row.
C29_FolderFailureNotFatal ==
    [][\A t \in Threads :
          /\ (req[t].pc = "finish_project_move" /\ Moves(t))
                => /\ req'[t].pc = "finish_project_update"
                   /\ req'[t].headers.Status = "Finished"
          /\ (req[t].op = "finish_project" /\ Succeeds(t))
                => StoredProjectAfter(t).Status = "Finished"
          /\ (At(t, "create_project") /\ Moves(t))
                => /\ req'[t].pc = "create_project_append"
                   /\ req'[t].headers.DriveFolderURL \in {"", FolderURL}
          /\ (/\ At(t, "create_work_order")
              /\ Moves(t)
              /\ find_row(projects_sheet, "ProjectID", req[t].data.ProjectID).row_data # None)
                => req'[t].pc = "create_work_order_append"
          /\ (req[t].op = "create_project" /\ Answers(t, {Created}))
                => projects_sheet' = Append(projects_sheet, req[t].headers)
          /\ (req[t].op = "create_work_order" /\ Answers(t, {Created}))
                => workorders_sheet' = Append(workorders_sheet, req[t].headers)]_vars

\* C29's case: a project was created with its folder, a work order was
\* created under it while the creation of the subfolder failed (the answer
\* carries a blank URL, the row is in the sheet), and the project is Finished.
C29_Witness ==
    /\ Len(projects_sheet) = 2
    /\ projects_sheet[2].DriveFolderURL = FolderURL
    /\ projects_sheet[2].ProjectID = "proj-1001"
    /\ projects_sheet[2].Status = "Finished"
    /\ Len(workorders_sheet) = 2
    /\ workorders_sheet[2].ProjectID = "proj-1001"
    /\ response = [op |-> "create_work_order", code |-> Created,
                   workorder |-> [SubfolderURL |-> ""]]

\* The last answer is the row of a work order, which a view renders.
Shown == response.op = "get" /\ response.code = OK

\* A step of a rendering request writes to neither sheet.
RenderingReadsOnly ==
    \A t \in Threads :
        (req[t].op \in {"get", "inprogress"} /\ Moves(t))
            => UNCHANGED <<workorders_sheet, projects_sheet>>

\* The timer of the row a view renders is running: Status InProgress and a
\* CurrentStartTime in the row.
TimerRunning == response.workorder.Status = "InProgress"
                    /\ response.workorder.CurrentStartTime # <<>>

\* Ticks from the CurrentStartTime of the rendered row to now.
ElapsedTicks == now - response.workorder.CurrentStartTime[1]

\* The seconds shown are TotalTimeSeconds plus the elapsed time exactly.
DisplayedExact ==
    Shown =>
        TicksPerSecond * build_embed(response.workorder, now) =
            TicksPerSecond * response.workorder.TotalTimeSeconds
                + (IF TimerRunning THEN ElapsedTicks ELSE 0)

\* The seconds shown are TotalTimeSeconds plus the whole seconds elapsed, the
\* fraction of a second cut off, while the timer runs; TotalTimeSeconds
\* otherwise.
DisplayedWholeSeconds ==
    Shown =>
        LET shown == build_embed(response.workorder, now)
            total == response.workorder.TotalTimeSeconds
        IN  IF TimerRunning
            THEN /\ TicksPerSecond * (shown - total) <= ElapsedTicks
                 /\ ElapsedTicks < TicksPerSecond * (shown - total + 1)
            ELSE shown = total

\* C30 as stated: rendering writes nothing, and the time a view shows for a
\* running work order is TotalTimeSeconds + (now - CurrentStartTime), for any
\* other TotalTimeSeconds.
C30_DisplayExact == [][RenderingReadsOnly /\ DisplayedExact']_vars

\* C30: rendering (get_work_order, get_in_progress_work_orders, build_embed)
\* writes to neither sheet, and the time a view shows for a running work
\* order is TotalTimeSeconds plus the whole seconds elapsed since
\* CurrentStartTime, the fraction cut off; for any other row, also one
\* InProgress with an empty CurrentStartTime, it is TotalTimeSeconds.
C30_DisplayReadOnly == [][RenderingReadsOnly /\ DisplayedWholeSeconds']_vars

\* C30's case: a view shows a running work order with one second logged, a
\* second and a half after its CurrentStartTime.
C30_Witness ==
    /\ Shown
    /\ TimerRunning
    /\ response.workorder.TotalTimeSeconds = 1
    /\ 2 * ElapsedTicks = 3 * TicksPerSecond
    /\ build_embed(response.workorder, now) = 2


\* C31: Create Work Order appends one row with Status Open, TotalTimeSeconds
\* 0, CurrentStartTime, InProgressUserID and QA_SubmittedByID empty and
\* PushedToUserID the assignment of the request's body (or empty), and the
\* request answered 201 has appended it; when the ProjectID of the body is
\* not in the Projects sheet the answer is 404 and no row is appended.
C31_CreateWorkOrderContract ==
    [][\A t \in Threads :
          /\ (At(t, "create_work_order") /\ Moves(t))
                => /\ workorders_sheet' = workorders_sheet
                   /\ IF \E i \in 1..Len(projects_sheet) :
                            projects_sheet[i].ProjectID = req[t].data.ProjectID
                      THEN /\ req'[t].pc = "create_work_order_append"
                           /\ req'[t].headers.ProjectID = req[t].data.ProjectID
                           /\ req'[t].headers.PushedToUserID = req[t].data.PushedToUserID
                           /\ req'[t].headers.Status = "Open"
                           /\ req'[t].headers.TotalTimeSeconds = 0
                           /\ req'[t].headers.CurrentStartTime = <<>>
                           /\ req'[t].headers.InProgressUserID = ""
                           /\ req'[t].headers.QA_SubmittedByID = ""
                      ELSE Answers(t, {NotFound})
          /\ (req[t].pc = "create_work_order_append" /\ Moves(t))
                => /\ workorders_sheet' \in {workorders_sheet,
                                             Append(workorders_sheet, req[t].headers)}
                   /\ Answers(t, {Created})
                         => workorders_sheet' = Append(workorders_sheet, req[t].headers)]_vars

\* C31's case: a work order assigned to actor B was created under the stored
\* project as the second row, Open with nothing on its timer and nobody
\* holding it, and the request was answered 201.
C31_Witness ==
    /\ Len(workorders_sheet) = 2
    /\ workorders_sheet[2].ProjectID = "proj-1000"
    /\ workorders_sheet[2].PushedToUserID = "B"
    /\ workorders_sheet[2].Status = "Open"
    /\ workorders_sheet[2].TotalTimeSeconds = 0
    /\ workorders_sheet[2].CurrentStartTime = <<>>
    /\ workorders_sheet[2].InProgressUserID = ""
    /\ response.op = "create_work_order"
    /\ response.code = Created

\* C32: a flush whose elapsed time is exactly k + 0.5 seconds adds k + 1
\* seconds to the total it read, for every k >= 0 and every prior total
\* (rounding to the nearest second, ties away from zero).
C32_TiesAwayFromZero ==
    [][\A t \in Threads :
          (/\ req[t].pc = "log_time_now"
           /\ Moves(t)
           /\ now >= req[t].row_data.CurrentStartTime[1]
           /\ (2 * (now - req[t].row_data.CurrentStartTime[1])) % (2 * TicksPerSecond)
                 = TicksPerSecond)
          => LET elapsed == now - req[t].row_data.CurrentStartTime[1]
                 k == (2 * elapsed - TicksPerSecond) \div (2 * TicksPerSecond)
             IN  req'[t].headers.TotalTimeSeconds
                    = req[t].row_data.TotalTimeSeconds + k + 1]_vars

\* C33: a Finish Project answered 200 has set Status to Finished and DueDate
\* to the date of the finish; no step of a Finish Project changes another
\* cell of any project row (ProjectID, ChannelID, Title, Deliverables, KPI,
\* AccountableID, DriveFolderURL) or the number of rows; a Finish Project on
\* a row that is Finished leaves it Finished.
C33_FinishProjectFrame ==
    [][\A t \in Threads :
          (req[t].op = "finish_project" /\ Moves(t))
          => /\ Len(projects_sheet') = Len(projects_sheet)
             /\ \A i \in 1..Len(projects_sheet) :
                   \A k \in DOMAIN projects_sheet[i] \ {"Status", "DueDate"} :
                      projects_sheet'[i][k] = projects_sheet[i][k]
             /\ Succeeds(t)
                   => /\ StoredProjectAfter(t).Status = "Finished"
                      /\ StoredProjectAfter(t).DueDate = today
             /\ (StoredProject(t) # None /\ StoredProject(t).Status = "Finished")
                   => StoredProjectAfter(t).Status = "Finished"]_vars

\* C33's case: the project, its Title edited and its accountable person
\* changed to B before, has been finished and the Finish Project answered
\* 200: the row is the edited one with Status Finished and the finish date.
C33_Witness ==
    /\ projects_sheet[1] = [ProjectRow("proj-1000", "B") EXCEPT
                               !.Title = "p2", !.Status = "Finished", !.DueDate = today]
    /\ response = [op |-> "finish_project", code |-> OK]

\* C34: with requests handled one at a time and every store write
\* succeeding, whenever no request is being handled every row has
\* CurrentStartTime non-empty if and only if its Status is InProgress, and
\* InProgressUserID non-empty if and only if its Status is InProgress,
\* whatever the order of Start, Pause, Finish, Approve, Rework and Edit.
C34_TimerCellsAtRest ==
    (\A t \in Threads : req[t].pc = "idle")
    => \A i \in Rows :
          /\ (workorders_sheet[i].CurrentStartTime # <<>>)
                <=> (workorders_sheet[i].Status = "InProgress")
          /\ (workorders_sheet[i].InProgressUserID # "")
                <=> (workorders_sheet[i].Status = "InProgress")

\* C34's case: the work order was timed, sent to review, reworked and edited,
\* and actor B has started it again: with no request being handled the row is
\* InProgress with its start time and its holder set, one second on the total.
C34_Witness ==
    /\ \A t \in Threads : req[t].pc = "idle"
    /\ workorders_sheet[1].Status = "InProgress"
    /\ workorders_sheet[1].CurrentStartTime = <<2>>
    /\ workorders_sheet[1].InProgressUserID = "B"
    /\ workorders_sheet[1].TotalTimeSeconds = 1
    /\ workorders_sheet[1].Title = "t2"
    /\ response = [op |-> "start", code |-> OK]

\* C35: a step that clears or replaces the non-empty CurrentStartTime of a
\* row on which at least a second has run is the flush write of the
\* operation, the write that stores the total with the elapsed time added;
\* this for Pause, Finish, Approve, Rework and a further Start alike.
C35_NoRunningTimeLost ==
    [][\A i \in Rows :
          (/\ workorders_sheet[i].CurrentStartTime # <<>>
           /\ workorders_sheet'[i].CurrentStartTime # workorders_sheet[i].CurrentStartTime
           /\ now >= workorders_sheet[i].CurrentStartTime[1] + TicksPerSecond)
          => \E t \in Threads :
                /\ req[t].pc = "log_time_update"
                /\ Moves(t)
                /\ req[t].row_num = i + 1]_vars

\* C37: in every state no row has Status Rework, and the cells a Rework is
\* about to write carry Status Open.
C37_NoRowIsRework ==
    /\ \A i \in Rows : workorders_sheet[i].Status # "Rework"
    /\ \A t \in Threads :
          req[t].pc = "rework_update" => req[t].headers.Status = "Open"

\* C37's case: a Rework has been answered 200 and the row is, cell for cell,
\* the row of a work order never started: Open, no holder, no start time, no
\* submitter.
C37_Witness ==
    /\ response = [op |-> "rework", code |-> OK]
    /\ workorders_sheet[1] = WorkOrderRow("wo-1000-100", "proj-1000", "")
    /\ projects_sheet[1].Status = "Active"

\* A person has pressed `button` of the control view in this step: the handler
\* has sent its request to the API or has refused the person.
Pressed(button) ==
    /\ bot.pc = ""
    /\ bot' # bot
    /\ bot'.last.button = button
    /\ bot'.pc = button \/ bot'.last.said = "refused"

\* C38: however often the timer loop has replaced the control view, an
\* Approve or a Rework pressed on a work order in review is sent to the API
\* when the person is the AccountableID of the project's row, and is refused
\* for anybody else.
C38_RerenderKeepsAuthority ==
    [][\A button \in {"approve", "rework"} :
          (/\ Pressed(button)
           /\ find_row(workorders_sheet, "WorkOrderID", bot.view.wo_id).row_data.Status = "InQA")
          => (bot'.pc = button <=> bot'.last.user = projects_sheet[1].AccountableID)]_vars

\* What the design lets a person do with a work order in a given status.
Admitted(status) ==
    CASE status \in {"Open", "Rework"} -> {"start", "edit", "cancel"}
      [] status = "InProgress" -> {"pause", "finish"}
      [] status = "InQA" -> {"approve", "rework"}
      [] OTHER -> {}

\* C39: in every state the buttons the control view offers are among the
\* operations admitted in the status the view was rendered for: Start, Edit
\* and Cancel for Open or Rework, Pause and Finish for InProgress, Approve
\* and Rework for InQA, none for any other status; and toggle_buttons gives
\* exactly these for each of the statuses a row may carry.
C39_ButtonsMatchStatus ==
    /\ bot.view.children \subseteq Admitted(str_get(bot.view.wo_data, "Status"))
    /\ \A status \in Statuses : toggle_buttons(status) = Admitted(status)

\* C39's case: the view was rendered for a work order in review, Approve was
\* pressed and answered, and the view, rendered again for the Approved row,
\* offers nothing.
C39_Witness ==
    /\ bot.last = [button |-> "approve", user |-> "A", said |-> "done"]
    /\ bot.view.wo_data.Status = "Approved"
    /\ bot.view.children = {}

\* C40: when no create flow is running, a thread exists if and only if a row
\* of the WorkOrders sheet names it.
C40_ThreadIffRow ==
    Free => \A thread_id \in ThreadIDs :
               thread_id \in threads
                  <=> \E i \in Rows : workorders_sheet[i].ThreadID = thread_id

\* C36: under any interleaving of Start, Pause and Finish on one work order,
\* TotalTimeSeconds never exceeds the time during which the stored Status
\* was InProgress, by more than the half second the rounding of one flush may
\* add.
C36_NeverOverCounted ==
    2 * TicksPerSecond * workorders_sheet[1].TotalTimeSeconds
        <= 2 * worked + TicksPerSecond
====
